---- MODULE Spec2Model ----
(***************************************************************************)
(* Model of the tracing specializer in src/tracer/Tracer/demo_fx:          *)
(* bytecode_tracer.py (CFG builder and symbolic interpreter), graph.py     *)
(* (IR and executor), dynamo_manager.py (guard compiler, trace cache,      *)
(* wrapper, invalidate-and-retrace, on_call), pdyn_profile.py (hook) and   *)
(* pdyn.py (register, unregister).                                         *)
(*                                                                         *)
(* Spec: one behaviour observes one user function (chosen in Init) living  *)
(* in a module namespace together with the globals it reads.               *)
(* SpecCFG: the CFG builder is run on decoded instruction lists.           *)
(***************************************************************************)
EXTENDS Integers, Sequences, FiniteSets, TLC

VARIABLES
    prog,          \* the user function under observation (its __name__)
    ns,            \* its module namespace: fn.__globals__, which is also owner_ns
    TRACE_CACHE,   \* dynamo_manager._TRACE_CACHE: fn -> entry
    wrappers,      \* every wrapper closure created so far; a wrapper's id is its index
    profile,       \* the function installed with sys.setprofile, or "None"
    call,          \* the call in progress on the (single) host thread
    tracer,        \* a TraceOnlyBytecodeTracer driven on its own (SpecCFG below)
    dynamo_hook    \* what `import dynamo_hook` did when pdyn was imported

vars == <<prog, ns, TRACE_CACHE, wrappers, profile, call, tracer, dynamo_hook>>

(***************************************************************************)
(* Bounds of the model.                                                    *)
(***************************************************************************)
\* wrapper closures created in one behaviour
MaxWrappers == 4
\* instructions of a decoded instruction list given to the CFG builder
MaxInstrs == 4

(***************************************************************************)
(* Python values.  Each kind has its own field, so that values of          *)
(* different kinds can be compared.                                        *)
(***************************************************************************)
None == [k |-> "none"]
IntV(n) == [k |-> "int", i |-> n]
BoolV(t) == [k |-> "bool", b |-> t]
\* a str
StrV(s) == [k |-> "str", s |-> s]
\* a callable helper (a builtin or an opaque library function)
FnV(f) == [k |-> "fn", f |-> f]
\* an object with attributes
ObjV(o) == [k |-> "obj", o |-> o]
\* a user function object and a wrapper closure, as found in a namespace slot
OrigV(f) == [k |-> "orig", fn |-> f]
WrapperV(w) == [k |-> "wrapper", w |-> w]
\* demo_fx.tracer.Proxy around graph node n
ProxyV(n) == [k |-> "proxy", p |-> n]
\* a name that is not bound in a dict
Unbound == [k |-> "unbound"]
\* the class of the values of kind k (type(v), v.__class__)
TypeV(k) == [k |-> "type", of |-> k]

\* outcome of running Python code: a returned value or a raised exception
Ret(v) == [r |-> "ret", v |-> v]
Raise(e) == [r |-> "raise", e |-> e]

\* name of a node or of a variable that is None in Python
NoName == "<None>"

(***************************************************************************)
(* Bytecode of the observed functions (CPython 3.10 instruction names, as  *)
(* bytecode_tracer.py expects them).  Instruction i has offset 2*(i-1).    *)
(*   s: argval when it is a name, v: argval when it is a constant,         *)
(*   n: arg (a count) or argval (a jump target offset).                    *)
(***************************************************************************)
Ins(op, s, v, n) == [op |-> op, s |-> s, v |-> v, n |-> n]
LOAD_FAST(x) == Ins("LOAD_FAST", x, None, 0)
STORE_FAST(x) == Ins("STORE_FAST", x, None, 0)
LOAD_CONST(c) == Ins("LOAD_CONST", "", c, 0)
LOAD_GLOBAL(g) == Ins("LOAD_GLOBAL", g, None, 0)
LOAD_ATTR(a) == Ins("LOAD_ATTR", a, None, 0)
CALL_FUNCTION(argc) == Ins("CALL_FUNCTION", "", None, argc)
POP_JUMP_IF_FALSE(t) == Ins("POP_JUMP_IF_FALSE", "", None, t)
POP_JUMP_IF_TRUE(t) == Ins("POP_JUMP_IF_TRUE", "", None, t)
JUMP_FORWARD(t) == Ins("JUMP_FORWARD", "", None, t)
Op0(op) == Ins(op, "", None, 0)

\* the observed functions
Programs == {"ident", "probe", "apply", "pick", "neg", "rd", "rdif", "rdnot",
             "keep", "loc", "twice", "kind"}

\* co_varnames[:co_argcount]
Params(p) ==
    CASE p = "ident" -> <<"x">>
      [] p = "probe" -> <<>>
      [] p = "apply" -> <<"x">>
      [] p = "pick" -> <<"c">>
      [] p = "neg" -> <<"x">>
      [] p = "rd" -> <<>>
      [] p = "rdif" -> <<"c">>
      [] p = "rdnot" -> <<"c">>
      [] p = "keep" -> <<"c">>
      [] p = "loc" -> <<>>
      [] p = "twice" -> <<>>
      [] p = "kind" -> <<"x">>

\* list(dis.get_instructions(fn.__code__))
Code(p) ==
    CASE p = "ident" ->     \* def ident(x): return x
            <<LOAD_FAST("x"), Op0("RETURN_VALUE")>>
      [] p = "probe" ->     \* def probe(): return h()
            <<LOAD_GLOBAL("h"), CALL_FUNCTION(0), Op0("RETURN_VALUE")>>
      [] p = "apply" ->     \* def apply(x): return h(x)
            <<LOAD_GLOBAL("h"), LOAD_FAST("x"), CALL_FUNCTION(1),
              Op0("RETURN_VALUE")>>
      [] p = "pick" ->      \* def pick(c): if c: return 1 \n return 2
            <<LOAD_FAST("c"), POP_JUMP_IF_FALSE(8), LOAD_CONST(IntV(1)),
              Op0("RETURN_VALUE"), LOAD_CONST(IntV(2)), Op0("RETURN_VALUE")>>
      [] p = "neg" ->       \* def neg(x): return -x
            <<LOAD_FAST("x"), Op0("UNARY_NEGATIVE"), Op0("RETURN_VALUE")>>
      [] p = "rd" ->        \* def rd(): return cfg.p
            <<LOAD_GLOBAL("cfg"), LOAD_ATTR("p"), Op0("RETURN_VALUE")>>
      [] p = "rdif" ->      \* def rdif(c): if c: return cfg.p \n return 0
            <<LOAD_FAST("c"), POP_JUMP_IF_FALSE(10), LOAD_GLOBAL("cfg"), LOAD_ATTR("p"),
              Op0("RETURN_VALUE"), LOAD_CONST(IntV(0)), Op0("RETURN_VALUE")>>
      [] p = "rdnot" ->     \* def rdnot(c): if not c: return cfg.p \n return 0
            <<LOAD_FAST("c"), POP_JUMP_IF_TRUE(10), LOAD_GLOBAL("cfg"), LOAD_ATTR("p"),
              Op0("RETURN_VALUE"), LOAD_CONST(IntV(0)), Op0("RETURN_VALUE")>>
      [] p = "keep" ->      \* def keep(c): y = 1 \n if c: y = 2 \n return y
            <<LOAD_CONST(IntV(1)), STORE_FAST("y"), LOAD_FAST("c"), POP_JUMP_IF_FALSE(12),
              LOAD_CONST(IntV(2)), STORE_FAST("y"), LOAD_FAST("y"), Op0("RETURN_VALUE")>>
      [] p = "loc" ->       \* def loc(): y = h() \n return y
            <<LOAD_GLOBAL("h"), CALL_FUNCTION(0), STORE_FAST("y"), LOAD_FAST("y"),
              Op0("RETURN_VALUE")>>
      [] p = "twice" ->     \* def twice(): return h()()
            <<LOAD_GLOBAL("h"), CALL_FUNCTION(0), CALL_FUNCTION(0), Op0("RETURN_VALUE")>>
      [] p = "kind" ->      \* def kind(x): return x.__class__
            <<LOAD_FAST("x"), LOAD_ATTR("__class__"), Op0("RETURN_VALUE")>>

Offset(i) == 2 * (i - 1)
\* self._offset2idx
offset2idx(off) == (off \div 2) + 1

\* module-level names the observed functions read, and the objects they may hold;
\* "also" is a second name the module may give the observed function (also = f)
GlobalNames == {"h", "cfg", "also"}
GlobalChoices(g) ==
    CASE g = "h" -> {FnV("inc"), FnV("dec"), FnV("boom")}
      [] g = "cfg" -> {ObjV("ok"), ObjV("nil"), ObjV("bad")}

\* getattr(builtins, gname, None)
builtins_get(gname) == IF gname = "abs" THEN FnV("abs") ELSE None

(***************************************************************************)
(* Attribute access on values.  ObjV("ok").p is 3; ObjV("nil").p is None;  *)
(* ObjV("bad").p is a property that raises NotReady; nothing else has an   *)
(* attribute p.  Every value has its __class__.                            *)
(***************************************************************************)
GetAttr(v, a) ==
    IF a = "__class__" THEN Ret(TypeV(v.k))
    ELSE IF v.k = "obj" /\ a = "p"
    THEN CASE v.o = "ok" -> Ret(IntV(3))
           [] v.o = "nil" -> Ret(None)
           [] OTHER -> Raise("NotReady")
    ELSE Raise("AttributeError")

\* hasattr(v, a): AttributeError means False, any other exception escapes
HasAttr(v, a) ==
    LET r == GetAttr(v, a)
    IN  IF r.r = "ret" THEN Ret(BoolV(TRUE))
        ELSE IF r.e = "AttributeError" THEN Ret(BoolV(FALSE)) ELSE r

\* getattr(v, a, default)
GetAttrDefault(v, a, d) ==
    LET r == GetAttr(v, a)
    IN  IF r.r = "raise" /\ r.e = "AttributeError" THEN Ret(d) ELSE r

\* callable(v)
Callable(v) == v.k \in {"fn", "orig", "wrapper", "type"}

\* repr(c) of a constant, getattr(obj, '__name__', repr(obj)) of an object
Repr(v) ==
    CASE v.k = "none" -> "None"
      [] v.k = "bool" -> IF v.b THEN "True" ELSE "False"
      [] v.k = "int" -> IF v.i \in 0..9
                        THEN <<"0", "1", "2", "3", "4", "5", "6", "7", "8", "9">>[v.i + 1]
                        ELSE "<int>"
      [] v.k = "str" -> "'" \o v.s \o "'"
      [] v.k = "fn" -> v.f
      [] v.k = "obj" -> v.o
      [] OTHER -> "<object>"

(***************************************************************************)
(* bytecode_tracer.py: TraceOnlyBytecodeTracer._build_basic_blocks         *)
(***************************************************************************)
\* opname.startswith("JUMP") or opname.startswith("POP_JUMP") or opname == "FOR_ITER"
IsJump(op) ==
    op \in {"JUMP_FORWARD", "JUMP_ABSOLUTE", "JUMP_IF_TRUE_OR_POP",
            "JUMP_IF_FALSE_OR_POP", "POP_JUMP_IF_FALSE", "POP_JUMP_IF_TRUE",
            "FOR_ITER"}

\* the set `leaders` when the two leader loops are done (lines 278-305)
Leaders(instrs) ==
    LET n == Len(instrs)
        target_offsets == {instrs[i].n : i \in {j \in 1..n : IsJump(instrs[j].op)}}
    IN  {Offset(1)}
        \cup target_offsets
        \cup {Offset(i + 1) : i \in {j \in 1..n :
                /\ instrs[j].op \in {"RETURN_VALUE", "JUMP_ABSOLUTE", "JUMP_FORWARD"}
                /\ j + 1 <= n}}

\* leader_list: sorted(leaders), as instruction indexes (every jump target of
\* the bytecode above is the offset of an instruction)
LeaderIdx(instrs) ==
    SelectSeq([i \in 1..Len(instrs) |-> i],
              LAMBDA i : Offset(i) \in Leaders(instrs))

\* the offsets that are keys of self._blocks
Registered(ll) == {Offset(ll[q]) : q \in 1..Len(ll)}

\* a block that takes the next leader in as its last instruction;
\* C17_Partition must tell it from the slice of line 323
BlockLastInclusive(instrs, ll, j) == IF j + 1 <= Len(ll) THEN ll[j + 1] ELSE Len(instrs)

\* index of the last instruction of the block of the j-th leader (lines 314-323)
BlockLast(instrs, ll, j) == IF j + 1 <= Len(ll) THEN ll[j + 1] - 1 ELSE Len(instrs)

\* the fall-through successor after instruction `last`, if it is a block (lines 336-340, 343-347)
FallThrough(instrs, ll, last) ==
    IF last + 1 <= Len(instrs) /\ Offset(last + 1) \in Registered(ll)
    THEN <<Offset(last + 1)>> ELSE <<>>

\* bb.succs of a block whose last instruction has index `last` (lines 326-347)
Succs(instrs, ll, last) ==
    IF instrs[last].op = "RETURN_VALUE" THEN <<>>
    ELSE IF IsJump(instrs[last].op)
    THEN (IF instrs[last].n \in Registered(ll) THEN <<instrs[last].n>> ELSE <<>>)
         \o FallThrough(instrs, ll, last)
    ELSE FallThrough(instrs, ll, last)

\* self._blocks before the predecessors are filled, in ascending start_offset order
BlocksNoPreds(instrs, ll) ==
    [j \in 1..Len(ll) |->
        [start_offset |-> Offset(ll[j]),
         first |-> ll[j],
         last |-> BlockLast(instrs, ll, j),
         succs |-> Succs(instrs, ll, BlockLast(instrs, ll, j)),
         preds |-> <<>>]]

\* the (pred, succ) edges in the order the "fill preds" loop meets them
RECURSIVE EdgesFrom(_, _)
EdgesFrom(blks, j) ==
    IF j > Len(blks) THEN <<>>
    ELSE [q \in 1..Len(blks[j].succs) |-> <<blks[j].start_offset, blks[j].succs[q]>>]
         \o EdgesFrom(blks, j + 1)

\* a fill that appends the block's own offset for every edge into it;
\* C18_EdgesWellFormed must tell it from line 352
PredsOfItself(edges, off) ==
    LET into == SelectSeq(edges, LAMBDA e : e[2] = off)
    IN  [q \in 1..Len(into) |-> off]

\* the start offsets of the edges into the block at `off`
PredsOf(edges, off) ==
    LET into == SelectSeq(edges, LAMBDA e : e[2] = off)
    IN  [q \in 1..Len(into) |-> into[q][1]]

\* lines 349-352
FillPreds(blks, edges) ==
    [j \in 1..Len(blks) |-> [blks[j] EXCEPT !.preds = PredsOf(edges, blks[j].start_offset)]]

WithPreds(blks) == FillPreds(blks, EdgesFrom(blks, 1))

\* self._blocks after _build_basic_blocks, in ascending start_offset order
build_basic_blocks(instrs) == WithPreds(BlocksNoPreds(instrs, LeaderIdx(instrs)))

\* TraceOnlyBytecodeTracer(), lines 32-41: nothing decoded, no blocks
NewTracer == [pc |-> "new", instrs |-> <<>>, blocks |-> <<>>]

(***************************************************************************)
(* graph.py: Node and Graph.  A graph is the sequence graph.nodes; a Node  *)
(* is referred to by its position in it, and 0 stands for Python's None.   *)
(***************************************************************************)
Node(op, target, args, name) == [op |-> op, target |-> target, args |-> args, name |-> name]

\* Graph.create_node: append the node
create_node(graph, op, target, args, name) == Append(graph, Node(op, target, args, name))

\* an element of node.args: a reference to a Node, or a literal value
NodeRef(i) == [ref |-> i]
Lit(v) == [lit |-> v]
\* args that name the node after the one the interpreter holds;
\* C16_ArgsPrecede must tell it from the args the tracer builds
ArgOfNext(ref) == IF ref = 0 THEN Lit(None) ELSE NodeRef(ref + 1)

\* the element of args a stack entry becomes
ArgOf(ref) == IF ref = 0 THEN Lit(None) ELSE NodeRef(ref)
ArgsOf(refs) == [q \in 1..Len(refs) |-> ArgOf(refs[q])]

\* getattr(node, "target", None) and getattr(node, "name", None) of a stack entry
TargetOf(graph, ref) == IF ref = 0 THEN None ELSE graph[ref].target
NameOf(graph, ref) == IF ref = 0 THEN NoName ELSE graph[ref].name

(***************************************************************************)
(* Guard records, bytecode_tracer.py self._guards                          *)
(***************************************************************************)
GlobalEq(name, val) == [tag |-> "global_eq", name |-> name, val |-> val]
AttrEq(base, attr, val) == [tag |-> "attr_eq", base |-> base, attr |-> attr, val |-> val]
IsBool(cond) == [tag |-> "is_bool", cond |-> cond]
UnhandledOpcode(opname, offset) == [tag |-> "unhandled_opcode", opname |-> opname, offset |-> offset]
\* the guard list holds an unhandled_opcode guard
HasUnhandled(guards) == \E q \in 1..Len(guards) : guards[q].tag = "unhandled_opcode"

(***************************************************************************)
(* bytecode_tracer.py: TraceOnlyBytecodeTracer.trace_function              *)
(* The state of the symbolic interpreter inside one block:                 *)
(*   graph, guards, stack (node references), local_map (name -> node       *)
(*   reference), and how the instruction loop went on:                     *)
(*   "run", "break" (after RETURN_VALUE), "abort" (unhandled opcode:       *)
(*   trace_function returns at once), "raise" (an exception escapes).      *)
(***************************************************************************)
EmptyMap == [x \in {} |-> 0]
MapGet(m, key) == IF key \in DOMAIN m THEN m[key] ELSE 0
MapSet(m, key, v) == [x \in DOMAIN m \cup {key} |-> IF x = key THEN v ELSE m[x]]

Top(stack) == stack[Len(stack)]
Pop(stack) == SubSeq(stack, 1, Len(stack) - 1)
Push(st, ref) == [st EXCEPT !.stack = Append(@, ref)]
\* a new node is appended to the graph and pushed
Emit(st, stack, op, target, args, name) ==
    [st EXCEPT !.graph = create_node(st.graph, op, target, args, name),
               !.stack = Append(stack, Len(st.graph) + 1)]
Raising(st, e) == [st EXCEPT !.status = "raise", !.exc = e]

\* lines 115-120
SimLoadFast(st, ins) ==
    LET node == MapGet(st.local_map, ins.s)
    IN  IF node # 0 THEN Push(st, node)
        ELSE Emit(st, st.stack, "get_local", StrV(ins.s), <<>>, ins.s)

\* lines 121-125
SimStoreFast(st, ins) ==
    LET val == IF st.stack # <<>> THEN Top(st.stack) ELSE 0
        stack == IF st.stack # <<>> THEN Pop(st.stack) ELSE st.stack
    IN  [st EXCEPT !.stack = stack,
                   !.local_map = MapSet(st.local_map, ins.s, val),
                   !.graph = create_node(st.graph, "store_fast", StrV(ins.s), <<ArgOf(val)>>, ins.s)]

\* lines 126-129
SimLoadConst(st, ins) == Emit(st, st.stack, "const", ins.v, <<>>, Repr(ins.v))

\* lines 130-142; globals is self._fn.__globals__
SimLoadGlobal(st, ins, globals) ==
    LET g0 == IF ins.s \in DOMAIN globals /\ globals[ins.s] # Unbound
              THEN globals[ins.s] ELSE None
        val == IF g0 = None THEN builtins_get(ins.s) ELSE g0
    IN  IF val # None
        THEN [Emit(st, st.stack, "const", val, <<>>, ins.s)
                EXCEPT !.guards = Append(st.guards, GlobalEq(ins.s, val))]
        ELSE Emit(st, st.stack, "const", StrV(ins.s), <<>>, ins.s)

\* lines 152-162
SimLoadAttr(st, ins) ==
    IF st.stack = <<>> THEN Raising(st, "IndexError")
    ELSE
    LET base == Top(st.stack)
        base_obj == TargetOf(st.graph, base)
        has == IF base_obj = None THEN Ret(BoolV(FALSE)) ELSE HasAttr(base_obj, ins.s)
    IN  IF has.r = "raise" THEN Raising(st, has.e)
        ELSE IF has.v.b
        THEN LET v == GetAttr(base_obj, ins.s).v
             IN  [Emit(st, Pop(st.stack), "const", v, <<>>, Repr(base_obj) \o "." \o ins.s)
                    EXCEPT !.guards = Append(st.guards, AttrEq(base, ins.s, v))]
        ELSE Emit(st, Pop(st.stack), "get_attr", StrV(ins.s), <<ArgOf(base)>>, ins.s)

\* lines 192-201
SimCall(st, ins) ==
    IF Len(st.stack) < ins.n + 1 THEN Raising(st, "IndexError")
    ELSE
    LET k == Len(st.stack)
        args == SubSeq(st.stack, k - ins.n + 1, k)
        func == st.stack[k - ins.n]
        rest == SubSeq(st.stack, 1, k - ins.n - 1)
        func_obj == TargetOf(st.graph, func)
    IN  IF Callable(func_obj)
        THEN Emit(st, rest, "call_function", func_obj, ArgsOf(args),
                  IF func_obj.k = "fn" THEN func_obj.f ELSE NoName)
        ELSE Emit(st, rest, "call_function", FnV("_call_with_kwargs"),
                  ArgsOf(<<func>> \o args), "call_gen")

\* lines 233-245
SimBinary(st, ins) ==
    IF Len(st.stack) < 2 THEN Raising(st, "IndexError")
    ELSE
    LET k == Len(st.stack)
        op == CASE ins.op = "BINARY_ADD" -> "add"
                [] ins.op = "BINARY_MULTIPLY" -> "mul"
                [] ins.op = "BINARY_SUBTRACT" -> "sub"
                [] OTHER -> "truediv"
    IN  Emit(st, SubSeq(st.stack, 1, k - 2), "call_function", FnV(op),
             ArgsOf(<<st.stack[k - 1], st.stack[k]>>), "binop")

\* lines 246-253
SimPopJump(st, ins) ==
    LET cond == IF st.stack # <<>> THEN Top(st.stack) ELSE 0
        stack == IF st.stack # <<>> THEN Pop(st.stack) ELSE st.stack
    IN  [st EXCEPT !.stack = stack, !.guards = Append(st.guards, IsBool(cond))]

\* lines 254-258
SimReturn(st, ins) ==
    LET val == IF st.stack # <<>> THEN Top(st.stack) ELSE 0
        stack == IF st.stack # <<>> THEN Pop(st.stack) ELSE st.stack
    IN  [st EXCEPT !.stack = stack,
                   !.graph = create_node(st.graph, "output", StrV("output"), <<ArgOf(val)>>, "return"),
                   !.status = "break"]

\* lines 259-260
SimPopTop(st, ins) == IF st.stack # <<>> THEN [st EXCEPT !.stack = Pop(st.stack)] ELSE st

\* lines 261-264
SimUnhandled(st, ins, idx) ==
    [st EXCEPT !.guards = Append(st.guards, UnhandledOpcode(ins.op, Offset(idx))),
               !.status = "abort"]

\* one turn of `for instr in bb.instrs` (lines 113-264).  The cases of
\* LOAD_DEREF, BUILD_LIST/TUPLE/MAP, UNPACK_SEQUENCE/EX and the keyword calls
\* are left out: no observed function has these instructions.
SimInstr(st, ins, idx, globals) ==
    CASE ins.op = "LOAD_FAST" -> SimLoadFast(st, ins)
      [] ins.op = "STORE_FAST" -> SimStoreFast(st, ins)
      [] ins.op = "LOAD_CONST" -> SimLoadConst(st, ins)
      [] ins.op = "LOAD_GLOBAL" -> SimLoadGlobal(st, ins, globals)
      [] ins.op = "LOAD_ATTR" -> SimLoadAttr(st, ins)
      [] ins.op \in {"CALL_FUNCTION", "CALL_METHOD"} -> SimCall(st, ins)
      [] ins.op \in {"BINARY_ADD", "BINARY_MULTIPLY", "BINARY_SUBTRACT",
                     "BINARY_TRUE_DIVIDE"} -> SimBinary(st, ins)
      [] ins.op \in {"POP_JUMP_IF_FALSE", "POP_JUMP_IF_TRUE"} -> SimPopJump(st, ins)
      [] ins.op = "RETURN_VALUE" -> SimReturn(st, ins)
      [] ins.op = "POP_TOP" -> SimPopTop(st, ins)
      [] OTHER -> SimUnhandled(st, ins, idx)

\* the instruction loop over bb.instrs = instrs[idx..last]
RECURSIVE SimBlock(_, _, _, _, _)
SimBlock(st, instrs, idx, last, globals) ==
    IF idx > last \/ st.status # "run" THEN st
    ELSE SimBlock(SimInstr(st, instrs[idx], idx, globals), instrs, idx + 1, last, globals)

PhiUnmerged(name, vals) == [tag |-> "phi_unmerged", name |-> name, vals |-> vals]

\* lines 86-107: the merge of the in-states of the predecessors, one key at a time
\* (m: graph, guards and the state built so far)
RECURSIVE MergeKeys(_, _, _)
MergeKeys(m, keys, pred_states) ==
    IF keys = {} THEN m
    ELSE
    LET key == CHOOSE x \in keys : TRUE
        vals == [q \in 1..Len(pred_states) |-> MapGet(pred_states[q], key)]
        same == \A q \in 1..Len(vals) : vals[q] = vals[1]
        cond_candidate == MapGet(m.state, "cond")
        m1 == IF same THEN [m EXCEPT !.state = MapSet(m.state, key, vals[1])]
              ELSE IF cond_candidate = 0
              THEN [m EXCEPT !.state = MapSet(m.state, key, vals[1]),
                             !.guards = Append(m.guards, PhiUnmerged(key, vals))]
              ELSE [m EXCEPT !.state = MapSet(m.state, key, Len(m.graph) + 1),
                             !.graph = create_node(m.graph, "call_function", FnV("_phi_select"),
                                                   ArgsOf(<<cond_candidate, vals[1], vals[2]>>), NoName)]
    IN  MergeKeys(m1, keys \ {key}, pred_states)

\* lines 76-109: the incoming state of block bb
InState(graph, guards, bb, block_in_state) ==
    LET with == SelectSeq(bb.preds, LAMBDA q : q \in DOMAIN block_in_state)
        pred_states == [q \in 1..Len(with) |-> block_in_state[with[q]]]
        keys == UNION {DOMAIN pred_states[q] : q \in 1..Len(pred_states)}
    IN  IF bb.preds = <<>> \/ pred_states = <<>>
        THEN [graph |-> graph, guards |-> guards, state |-> EmptyMap]
        ELSE MergeKeys([graph |-> graph, guards |-> guards, state |-> EmptyMap],
                       keys, pred_states)

\* lines 110-266: block number j, start offset `off`, is simulated from the
\* in-state m; st is the interpreter after the instruction loop
AfterBlock(tr, off, j, m, st) ==
    [graph |-> st.graph, guards |-> st.guards,
     worklist |-> Tail(tr.worklist),
     visited |-> tr.visited \cup {off},
     block_in_state |-> MapSet(tr.block_in_state, off, m.state),
     bb |-> j,
     status |-> IF st.status \in {"abort", "raise"} THEN st.status ELSE "run",
     exc |-> st.exc]

RunBlock(tr, off, j, m, bb, instrs, globals) ==
    AfterBlock(tr, off, j, m,
               SimBlock([graph |-> m.graph, guards |-> m.guards, stack |-> <<>>,
                         local_map |-> m.state, status |-> "run", exc |-> ""],
                        instrs, bb.first, bb.last, globals))

\* lines 71-75: the block popped from the worklist
VisitBlock(tr, off, j, bb, instrs, globals) ==
    RunBlock(tr, off, j, InState(tr.graph, tr.guards, bb, tr.block_in_state), bb, instrs, globals)

BlockAt(blocks, off) == CHOOSE q \in 1..Len(blocks) : blocks[q].start_offset = off

\* lines 70-266: the `while worklist` loop.  tr: graph, guards, worklist, visited,
\* block_in_state, bb (index of the block processed last), status, exc
RECURSIVE WorkLoop(_, _, _, _)
WorkLoop(tr, instrs, blocks, globals) ==
    IF tr.worklist = <<>> \/ tr.status # "run" THEN tr
    ELSE IF Head(tr.worklist) \in tr.visited
    THEN WorkLoop([tr EXCEPT !.worklist = Tail(@)], instrs, blocks, globals)
    ELSE WorkLoop(VisitBlock(tr, Head(tr.worklist), BlockAt(blocks, Head(tr.worklist)),
                             blocks[BlockAt(blocks, Head(tr.worklist))], instrs, globals),
                  instrs, blocks, globals)

\* lines 268-271, which run once, after the loop: the successors of the block
\* processed last are appended to a worklist nobody reads again
RECURSIVE Enqueue(_, _, _)
Enqueue(worklist, succs, visited) ==
    IF succs = <<>> THEN worklist
    ELSE Enqueue(IF Head(succs) \notin visited
                    /\ \A q \in 1..Len(worklist) : worklist[q] # Head(succs)
                 THEN Append(worklist, Head(succs)) ELSE worklist,
                 Tail(succs), visited)

EnqueueSuccs(tr, blocks) ==
    IF tr.status # "run" THEN tr
    ELSE [tr EXCEPT !.worklist = Enqueue(@, blocks[tr.bb].succs, tr.visited)]

\* lines 57-61: one placeholder per parameter
Placeholders(params) ==
    [q \in 1..Len(params) |-> Node("placeholder", StrV(params[q]), <<>>, params[q])]

\* line 273 (or the return of line 264, or the exception that escapes)
TraceResult(fin) ==
    [graph |-> fin.graph, guards |-> fin.guards,
     raised |-> fin.status = "raise", exc |-> fin.exc,
     visited |-> fin.visited, worklist |-> fin.worklist]

\* lines 57-69: the tracer before the first turn of the while loop; the
\* worklist starts with the entry block
TraceStart(fn, blocks) ==
    [graph |-> Placeholders(Params(fn)), guards |-> <<>>,
     worklist |-> <<blocks[1].start_offset>>, visited |-> {},
     block_in_state |-> EmptyMap, bb |-> 1,
     status |-> "run", exc |-> ""]

\* lines 63-273
TraceBlocks(fn, instrs, blocks, globals) ==
    TraceResult(EnqueueSuccs(WorkLoop(TraceStart(fn, blocks), instrs, blocks, globals), blocks))

\* trace_function(fn) with fn.__globals__ = globals: the (graph, guards) it
\* returns, or the exception it raises; visited and worklist are kept to be
\* looked at.  (None of the observed functions has closure cells.)
trace_function(fn, globals) ==
    TraceBlocks(fn, Code(fn), build_basic_blocks(Code(fn)), globals)

(***************************************************************************)
(* The host language: what calling a helper, an operator or the original   *)
(* function does.  Running code may append nodes to the graph g of the     *)
(* active proxy tracer (demo_fx/tracer.py), so g is threaded through.      *)
(***************************************************************************)
Res(res, g) == [res |-> res, g |-> g]
FloatV(n, d) == [k |-> "float", q |-> <<n, d>>]
IsNum(v) == v.k \in {"int", "bool"}
NumOf(v) == IF v.k = "int" THEN v.i ELSE IF v.b THEN 1 ELSE 0

\* bool(v)
Truthy(v) ==
    CASE v.k = "none" -> FALSE
      [] v.k = "bool" -> v.b
      [] v.k = "int" -> v.i # 0
      [] v.k = "str" -> v.s # ""
      [] OTHER -> TRUE

RECURSIVE Rep(_, _)
Rep(str, n) == IF n <= 0 THEN "" ELSE str \o Rep(str, n - 1)

\* tracer.py Tracer.create_proxy_for_op (lines 78-94)
create_proxy_for_op(g, target_fn, args) ==
    LET processed == [q \in 1..Len(args) |->
                        IF args[q].k = "proxy" THEN NodeRef(args[q].p) ELSE Lit(args[q])]
    IN  Res(Ret(ProxyV(Len(g) + 1)),
            create_node(g, "call_function", target_fn, processed, NoName))

\* a op b, for the operators behind BINARY_ADD/SUBTRACT/MULTIPLY/TRUE_DIVIDE;
\* Proxy defines __add__, __radd__, __mul__ and __rmul__ only (tracer.py 25-39)
BinOp(op, a, b, g) ==
    IF a.k = "proxy" \/ b.k = "proxy"
    THEN IF op \in {"add", "mul"} THEN create_proxy_for_op(g, FnV(op), <<a, b>>)
         ELSE Res(Raise("TypeError"), g)
    ELSE IF IsNum(a) /\ IsNum(b)
    THEN CASE op = "add" -> Res(Ret(IntV(NumOf(a) + NumOf(b))), g)
           [] op = "sub" -> Res(Ret(IntV(NumOf(a) - NumOf(b))), g)
           [] op = "mul" -> Res(Ret(IntV(NumOf(a) * NumOf(b))), g)
           [] OTHER -> IF NumOf(b) = 0 THEN Res(Raise("ZeroDivisionError"), g)
                       ELSE Res(Ret(FloatV(NumOf(a), NumOf(b))), g)
    ELSE IF a.k = "str" /\ b.k = "str" /\ op = "add" THEN Res(Ret(StrV(a.s \o b.s)), g)
    ELSE IF a.k = "str" /\ IsNum(b) /\ op = "mul" THEN Res(Ret(StrV(Rep(a.s, NumOf(b)))), g)
    ELSE IF IsNum(a) /\ b.k = "str" /\ op = "mul" THEN Res(Ret(StrV(Rep(b.s, NumOf(a)))), g)
    ELSE Res(Raise("TypeError"), g)

\* f(*args).  The helpers a global may hold:
\*   def inc(a=0): return a + 1      def dec(a=0): return a - 1
\*   def boom(*a): raise BoomError()
\* the builtin abs, the operators, and the two runtime targets of
\* bytecode_tracer.py, _phi_select (lines 8-12) and _call_with_kwargs (14-15).
\* (No observed function calls a user function, a wrapper or a class.)
RECURSIVE Apply(_, _, _)
Apply(f, args, g) ==
    IF f.k = "proxy" THEN Res(Raise("AttributeError"), g)    \* Proxy.__call__, tracer.py 42-44
    ELSE IF f.k # "fn" THEN Res(Raise("TypeError"), g)
    ELSE CASE f.f = "inc" ->
                IF Len(args) > 1 THEN Res(Raise("TypeError"), g)
                ELSE BinOp("add", IF args = <<>> THEN IntV(0) ELSE args[1], IntV(1), g)
           [] f.f = "dec" ->
                IF Len(args) > 1 THEN Res(Raise("TypeError"), g)
                ELSE BinOp("sub", IF args = <<>> THEN IntV(0) ELSE args[1], IntV(1), g)
           [] f.f = "boom" -> Res(Raise("BoomError"), g)
           [] f.f = "abs" ->
                IF Len(args) = 1 /\ IsNum(args[1])
                THEN Res(Ret(IntV(IF NumOf(args[1]) < 0 THEN 0 - NumOf(args[1])
                                  ELSE NumOf(args[1]))), g)
                ELSE Res(Raise("TypeError"), g)
           [] f.f \in {"add", "sub", "mul", "truediv"} ->
                IF Len(args) = 2 THEN BinOp(f.f, args[1], args[2], g)
                ELSE Res(Raise("TypeError"), g)
           [] f.f = "_call_with_kwargs" ->
                IF args = <<>> THEN Res(Raise("TypeError"), g)
                ELSE Apply(args[1], Tail(args), g)
           [] f.f = "_phi_select" ->
                IF args = <<>> THEN Res(Raise("TypeError"), g)
                ELSE IF Truthy(args[1])
                THEN (IF Len(args) >= 2 THEN Res(Ret(args[2]), g) ELSE Res(Raise("IndexError"), g))
                ELSE (IF Len(args) >= 3 THEN Res(Ret(args[3]), g) ELSE Res(Raise("IndexError"), g))
           [] OTHER -> Res(Raise("TypeError"), g)

\* one instruction of the original function, as CPython executes it.
\* vm: idx (next instruction), stack, locals, g, res (None while running)
VMStep(vm, ins, globals) ==
    LET k == Len(vm.stack)
        next == [vm EXCEPT !.idx = @ + 1]
        fail(e) == [vm EXCEPT !.res = Raise(e)]
        after(r, stack) == IF r.res.r = "raise" THEN [vm EXCEPT !.res = r.res, !.g = r.g]
                           ELSE [next EXCEPT !.stack = Append(stack, r.res.v), !.g = r.g]
    IN  CASE ins.op = "LOAD_FAST" ->
                IF ins.s \in DOMAIN vm.locals
                THEN [next EXCEPT !.stack = Append(@, vm.locals[ins.s])]
                ELSE fail("UnboundLocalError")
          [] ins.op = "STORE_FAST" ->
                [next EXCEPT !.stack = Pop(@), !.locals = MapSet(@, ins.s, Top(vm.stack))]
          [] ins.op = "LOAD_CONST" -> [next EXCEPT !.stack = Append(@, ins.v)]
          [] ins.op = "LOAD_GLOBAL" ->
                IF ins.s \in DOMAIN globals /\ globals[ins.s] # Unbound
                THEN [next EXCEPT !.stack = Append(@, globals[ins.s])]
                ELSE IF builtins_get(ins.s) # None
                THEN [next EXCEPT !.stack = Append(@, builtins_get(ins.s))]
                ELSE fail("NameError")
          [] ins.op = "LOAD_ATTR" ->
                after(Res(GetAttr(Top(vm.stack), ins.s), vm.g), Pop(vm.stack))
          [] ins.op = "CALL_FUNCTION" ->
                after(Apply(vm.stack[k - ins.n], SubSeq(vm.stack, k - ins.n + 1, k), vm.g),
                      SubSeq(vm.stack, 1, k - ins.n - 1))
          [] ins.op = "BINARY_ADD" ->
                after(BinOp("add", vm.stack[k - 1], vm.stack[k], vm.g), SubSeq(vm.stack, 1, k - 2))
          [] ins.op = "BINARY_SUBTRACT" ->
                after(BinOp("sub", vm.stack[k - 1], vm.stack[k], vm.g), SubSeq(vm.stack, 1, k - 2))
          [] ins.op = "BINARY_MULTIPLY" ->
                after(BinOp("mul", vm.stack[k - 1], vm.stack[k], vm.g), SubSeq(vm.stack, 1, k - 2))
          [] ins.op = "BINARY_TRUE_DIVIDE" ->
                after(BinOp("truediv", vm.stack[k - 1], vm.stack[k], vm.g), SubSeq(vm.stack, 1, k - 2))
          [] ins.op = "UNARY_NEGATIVE" ->
                IF IsNum(Top(vm.stack))
                THEN [next EXCEPT !.stack = Append(Pop(vm.stack), IntV(0 - NumOf(Top(vm.stack))))]
                ELSE fail("TypeError")
          [] ins.op = "POP_JUMP_IF_FALSE" ->
                [vm EXCEPT !.stack = Pop(@),
                           !.idx = IF Truthy(Top(vm.stack)) THEN vm.idx + 1 ELSE offset2idx(ins.n)]
          [] ins.op = "POP_JUMP_IF_TRUE" ->
                [vm EXCEPT !.stack = Pop(@),
                           !.idx = IF Truthy(Top(vm.stack)) THEN offset2idx(ins.n) ELSE vm.idx + 1]
          [] ins.op \in {"JUMP_FORWARD", "JUMP_ABSOLUTE"} -> [vm EXCEPT !.idx = offset2idx(ins.n)]
          [] ins.op = "POP_TOP" -> [next EXCEPT !.stack = Pop(@)]
          [] ins.op = "RETURN_VALUE" -> [vm EXCEPT !.res = Ret(Top(vm.stack))]
          [] OTHER -> fail("SystemError")

\* the evaluation loop; an observed function has no backward jump, so it
\* executes no instruction twice and `fuel` = its length is enough
RECURSIVE VMRun(_, _, _, _)
VMRun(vm, instrs, globals, fuel) ==
    IF vm.res # None \/ fuel = 0 \/ vm.idx > Len(instrs) THEN vm
    ELSE VMRun(VMStep(vm, instrs[vm.idx], globals), instrs, globals, fuel - 1)

\* original_fn(*args) with fn.__globals__ = globals, under the proxy graph g
OrigCall(fn, args, globals, g) ==
    IF Len(args) # Len(Params(fn)) THEN Res(Raise("TypeError"), g)
    ELSE LET vm == VMRun([idx |-> 1, stack |-> <<>>,
                          locals |-> [x \in {Params(fn)[q] : q \in 1..Len(args)} |->
                                        args[CHOOSE q \in 1..Len(args) : Params(fn)[q] = x]],
                          g |-> g, res |-> None],
                         Code(fn), globals, Len(Code(fn)))
         IN  Res(vm.res, vm.g)

\* what the caller of original_fn(*args) gets
original_fn(fn, args, globals) == OrigCall(fn, args, globals, <<>>).res

(***************************************************************************)
(* graph.py: GraphModule.run_with_bindings.  bindings maps names to values;*)
(* value_map maps node positions to values.                                *)
(***************************************************************************)
\* resolve(a), lines 80-87
resolve(a, value_map) ==
    IF "lit" \in DOMAIN a THEN Ret(a.lit)
    ELSE IF a.ref \in DOMAIN value_map THEN Ret(value_map[a.ref])
    ELSE Raise("RuntimeError")

\* tuple(resolve(x) for x in node.args): the values, or the first exception
ResolveAll(args, value_map) ==
    LET bad == {q \in 1..Len(args) : resolve(args[q], value_map).r = "raise"}
    IN  IF bad # {} THEN Raise("RuntimeError")
        ELSE Ret([q \in 1..Len(args) |-> resolve(args[q], value_map).v])

\* one turn of `for node in self.graph.nodes`, lines 89-115 (no trace of an
\* observed function has a get_index node; that case is left out)
ExecNode(node, i, value_map) ==
    LET set(v) == [done |-> FALSE, res |-> None, value_map |-> MapSet(value_map, i, v)]
        stop(r) == [done |-> TRUE, res |-> r, value_map |-> value_map]
        a1 == IF node.args = <<>> THEN Raise("IndexError") ELSE resolve(node.args[1], value_map)
    IN  CASE node.op = "placeholder" -> [done |-> FALSE, res |-> None, value_map |-> value_map]
          [] node.op = "const" -> set(node.target)
          [] node.op = "call_function" ->
                LET args == ResolveAll(node.args, value_map)
                    r == IF args.r = "raise" THEN args ELSE Apply(node.target, args.v, <<>>).res
                IN  IF r.r = "raise" THEN stop(r) ELSE set(r.v)
          [] node.op = "get_local" -> set(node.target)
          [] node.op = "get_attr" ->
                LET r == IF a1.r = "raise" THEN a1 ELSE GetAttr(a1.v, node.target.s)
                IN  IF r.r = "raise" THEN stop(r) ELSE set(r.v)
          [] node.op = "output" -> stop(a1)
          [] node.op = "guard" -> set(None)
          [] OTHER -> stop(Raise("NotImplementedError"))

\* the node loop from position i on; line 116 when it runs off the end
RECURSIVE ExecFrom(_, _, _)
ExecFrom(graph, i, value_map) ==
    IF i > Len(graph) THEN Raise("RuntimeError")
    ELSE LET x == ExecNode(graph[i], i, value_map)
         IN  IF x.done THEN x.res ELSE ExecFrom(graph, i + 1, x.value_map)

\* run_with_bindings(bindings), lines 69-116
run_with_bindings(graph, bindings) ==
    LET phs == {i \in 1..Len(graph) : graph[i].op = "placeholder"}
    IN  IF \E i \in phs : graph[i].name = NoName \/ graph[i].name \notin DOMAIN bindings
        THEN Raise("RuntimeError")
        ELSE ExecFrom(graph, 1, [i \in phs |-> bindings[graph[i].name]])

\* how many call_function targets the node loop calls from position i on
\* (line 97; a target is called once the arguments of its node are resolved)
RECURSIVE Invoked(_, _, _)
Invoked(graph, i, value_map) ==
    IF i > Len(graph) THEN 0
    ELSE LET x == ExecNode(graph[i], i, value_map)
         IN  (IF graph[i].op = "call_function"
                 /\ ResolveAll(graph[i].args, value_map).r = "ret" THEN 1 ELSE 0)
             + (IF x.done THEN 0 ELSE Invoked(graph, i + 1, x.value_map))

\* the targets one run_with_bindings(bindings) calls
TargetsCalled(graph, bindings) ==
    LET phs == {i \in 1..Len(graph) : graph[i].op = "placeholder"}
    IN  IF \E i \in phs : graph[i].name = NoName \/ graph[i].name \notin DOMAIN bindings
        THEN 0
        ELSE Invoked(graph, 1, [i \in phs |-> bindings[graph[i].name]])

(***************************************************************************)
(* dynamo_manager.py: _make_guard_checks.  A compiled check is kept as the *)
(* data its closure captured; EvalCheck is the closure's body.             *)
(***************************************************************************)
AlwaysFalse == [tag |-> "false"]

\* the closure built for guard g; graph holds the Node objects g refers to
make_check(g, graph) ==
    CASE g.tag = "global_eq" -> [tag |-> "global_eq", name |-> g.name, val |-> g.val]
      [] g.tag = "deref_eq" -> [tag |-> "deref_eq", name |-> g.name, val |-> g.val]
      [] g.tag = "attr_eq" ->
            IF NameOf(graph, g.base) = NoName THEN AlwaysFalse
            ELSE [tag |-> "attr_eq", base_name |-> NameOf(graph, g.base),
                  attr |-> g.attr, val |-> g.val]
      [] g.tag = "is_bool" ->
            IF NameOf(graph, g.cond) = NoName THEN AlwaysFalse
            ELSE [tag |-> "is_bool", cond_name |-> NameOf(graph, g.cond)]
      [] OTHER -> AlwaysFalse

\* _make_guard_checks(guards, original_fn): checks (meta is guards itself)
make_guard_checks(guards, graph) == [q \in 1..Len(guards) |-> make_check(guards[q], graph)]

\* gdict.get(name) / gdict.get(name, default)
DictGet(d, name, default) ==
    IF name \in DOMAIN d /\ d[name] # Unbound THEN d[name] ELSE default

\* check(bindings): the value of the closure, or the exception it raises;
\* [k |-> "object"] is the fresh object() of line 57, which has its class and
\* no other attribute of interest
EvalCheck(c, bindings, gdict) ==
    CASE c.tag = "global_eq" -> Ret(DictGet(gdict, c.name, None) = c.val)
      [] c.tag = "deref_eq" -> Ret(DictGet(gdict, c.name, c.val) = c.val)
      [] c.tag = "attr_eq" ->
            LET got == IF c.base_name \in DOMAIN bindings
                       THEN GetAttrDefault(bindings[c.base_name], c.attr, None)
                       ELSE GetAttrDefault([k |-> "object"], c.attr, None)
            IN  IF got.r = "raise" THEN got ELSE Ret(got.v = c.val)
      [] c.tag = "is_bool" ->
            Ret(c.cond_name \in DOMAIN bindings /\ bindings[c.cond_name].k = "bool")
      [] OTHER -> Ret(FALSE)

\* lines 155-159: ok after one check (a check that raises counts as not ok)
CheckOk(got) == got.r = "ret" /\ got.v

\* a guard loop that calls every check before it looks at the answers;
\* C11_GuardOrder must tell it from lines 154-159
GuardLoopToTheEnd(checks, q, bindings, gdict) ==
    [ok |-> \A i \in q..Len(checks) : CheckOk(EvalCheck(checks[i], bindings, gdict)),
     evaluated |-> Len(checks)]

\* the loop of lines 154-159 from the q-th check on.  ok: whether the loop ran
\* to its end (all guards passed); evaluated: how many checks were called
RECURSIVE GuardLoop(_, _, _, _)
GuardLoop(checks, q, bindings, gdict) ==
    IF q > Len(checks) THEN [ok |-> TRUE, evaluated |-> Len(checks)]
    ELSE IF CheckOk(EvalCheck(checks[q], bindings, gdict))
         THEN GuardLoop(checks, q + 1, bindings, gdict)
         ELSE [ok |-> FALSE, evaluated |-> q]

\* whether the wrapper gets past the guard loop
GuardsPass(checks, bindings, gdict) == GuardLoop(checks, 1, bindings, gdict).ok

(***************************************************************************)
(* graph.py GraphModule plus the two attributes the manager sets on it     *)
(***************************************************************************)
GraphModule(graph, guards) ==
    [graph |-> graph, guard_checks |-> make_guard_checks(guards, graph), guards_meta |-> guards]

(***************************************************************************)
(* tracer.py: symbolic_trace(fn, example_inputs), lines 50-76 and 96-99:   *)
(* the original runs once on Proxy inputs                                  *)
(***************************************************************************)
\* Tracer.trace lines 52-56: the placeholders arg0, arg1, ...
ArgPlaceholders(argcount) ==
    [q \in 1..argcount |->
        Node("placeholder", StrV("arg" \o Repr(IntV(q - 1))), <<>>, "arg" \o Repr(IntV(q - 1)))]

\* Tracer.trace lines 60-76, run being what fn(*proxies) did
TraceOutput(run) ==
    IF run.res.r = "raise"
    THEN [raised |-> TRUE, exc |-> run.res.e, graph |-> run.g]
    ELSE [raised |-> FALSE, exc |-> "",
          graph |-> create_node(run.g, "output", StrV("output"),
                                <<IF run.res.v.k = "proxy" THEN NodeRef(run.res.v.p)
                                  ELSE Lit(run.res.v)>>, NoName)]

symbolic_trace(fn, globals) ==
    TraceOutput(OrigCall(fn, [q \in 1..Len(Params(fn)) |-> ProxyV(q)], globals,
                         ArgPlaceholders(Len(Params(fn)))))

(***************************************************************************)
(* dynamo_manager.py: the trace cache, the wrapper and the retrace.        *)
(* A wrapper closure is [gm, original_fn] (owner_ns is the one namespace   *)
(* of the model, sig is Params(original_fn)); a cache entry is             *)
(* [gm, wrapper, original].                                                *)
(***************************************************************************)
Entry(gm, w, fn) == [gm |-> gm, wrapper |-> w, original |-> fn]
Closure(gm, fn) == [gm |-> gm, original_fn |-> fn]

\* dict without key / with key set
DictPop(d, key) == [x \in DOMAIN d \ {key} |-> d[x]]

\* an installation that fills the cache and leaves the namespace alone;
\* C31_CacheNamespaceAgree must tell it from lines 102-110 and 198-200
InstallCacheOnly(s, fn, graph, guards) ==
    LET gm == GraphModule(graph, guards)
        w == Len(s.ws) + 1
    IN  [cache |-> MapSet(s.cache, fn, Entry(gm, w, fn)),
         nsp |-> s.nsp,
         ws |-> Append(s.ws, Closure(gm, fn)),
         ok |-> TRUE]

\* lines 102-110 and 117-123: build the GraphModule and the wrapper, patch the
\* namespace, fill the cache.  s: [cache, nsp, ws, ok], the trace cache, the
\* namespace, the wrappers made so far and whether the operation succeeded
Install(s, fn, graph, guards) ==
    LET gm == GraphModule(graph, guards)
        w == Len(s.ws) + 1
    IN  [cache |-> MapSet(s.cache, fn, Entry(gm, w, fn)),
         nsp |-> [s.nsp EXCEPT ![fn] = WrapperV(w)],
         ws |-> Append(s.ws, Closure(gm, fn)),
         ok |-> TRUE]

\* an invalidation that restores the original but forgets to pop the cache
\* entry; C10_RetraceFailure must tell it from lines 84-94
PoppedButCached(fn, s) ==
    [cache |-> s.cache,
     nsp |-> IF fn \in DOMAIN s.cache THEN [s.nsp EXCEPT ![fn] = OrigV(s.cache[fn].original)]
             ELSE s.nsp,
     ws |-> s.ws, ok |-> TRUE]

\* lines 84-94: the entry is popped and the original goes back under its name
Popped(fn, s) ==
    [cache |-> DictPop(s.cache, fn),
     nsp |-> IF fn \in DOMAIN s.cache THEN [s.nsp EXCEPT ![fn] = OrigV(s.cache[fn].original)]
             ELSE s.nsp,
     ws |-> s.ws, ok |-> TRUE]

\* lines 96-128: t is what trace_function did, sym what symbolic_trace did
\* (it is called when t raised only); s1 is the state after the pop
Retraced(s1, had, original, t, sym) ==
    IF ~t.raised THEN Install(s1, original, t.graph, t.guards)
    ELSE IF ~sym.raised THEN Install(s1, original, sym.graph, <<>>)
    ELSE [cache |-> s1.cache,
          nsp |-> IF had THEN [s1.nsp EXCEPT ![original] = OrigV(original)] ELSE s1.nsp,
          ws |-> s1.ws,
          ok |-> FALSE]

RetraceOf(original, had, s1) ==
    Retraced(s1, had, original, trace_function(original, s1.nsp),
             symbolic_trace(original, s1.nsp))

\* an invalidation that pops the entry and leaves the namespace alone until
\* a retrace succeeds; C6_CacheCoherence must tell it from _invalidate_and_retrace
invalidate_keeping_wrapper(fn, s) ==
    RetraceOf(IF fn \in DOMAIN s.cache THEN s.cache[fn].original ELSE fn, FALSE,
              [cache |-> DictPop(s.cache, fn), nsp |-> s.nsp, ws |-> s.ws, ok |-> TRUE])

\* _invalidate_and_retrace(fn, owner_ns), lines 83-128;
\* ok is whether it returns (gm, wrapper) rather than None.
invalidate_and_retrace(fn, s) ==
    RetraceOf(IF fn \in DOMAIN s.cache THEN s.cache[fn].original ELSE fn,
              fn \in DOMAIN s.cache, Popped(fn, s))

\* dict(bound.arguments), lines 137-152, when no parameter is missing
Bindings(fn, args) ==
    [x \in {Params(fn)[q] : q \in 1..Len(args)} |->
        args[CHOOSE q \in 1..Len(args) : Params(fn)[q] = x]]

\* what a wrapper frame did, up to the point where it returns, raises, calls
\* the original or calls the new wrapper.
\*   kind: "return" | "raise" | "original" | "new_wrapper"
\*   retraced: whether _invalidate_and_retrace was called; s: the shared state after;
\*   replayed: what gm.run_with_bindings returned or raised, None if it did not run
\*   evaluated: how many guard checks the frame called
Keep(kind, res, s) ==
    [kind |-> kind, res |-> res, retraced |-> FALSE, s |-> s,
     replayed |-> IF kind = "return" THEN res ELSE None, evaluated |-> 0]

\* lines 160-166 and 171-177: the result of _invalidate_and_retrace is s2
Redispatch(s2, replayed, evaluated) ==
    [kind |-> IF s2.ok THEN "new_wrapper" ELSE "original", res |-> None,
     retraced |-> TRUE, s |-> s2, replayed |-> replayed, evaluated |-> evaluated]

\* a wrapper that refreshes its trace on the way out of a successful replay;
\* C29_FastPathUntouched must tell it from lines 154-177
DispatchRefreshing(fn, s, loop, ran) ==
    IF loop.ok /\ ran.r = "ret"
    THEN [Keep("return", ran, invalidate_and_retrace(fn, s)) EXCEPT !.evaluated = loop.evaluated]
    ELSE Redispatch(invalidate_and_retrace(fn, s), IF loop.ok THEN ran ELSE None,
                    loop.evaluated)

\* lines 154-177: loop is what the guard loop did, ran what gm.run_with_bindings
\* did (it runs when the loop ran to its end only)
Dispatch(fn, s, loop, ran) ==
    IF loop.ok /\ ran.r = "ret" THEN [Keep("return", ran, s) EXCEPT !.evaluated = loop.evaluated]
    ELSE Redispatch(invalidate_and_retrace(fn, s), IF loop.ok THEN ran ELSE None,
                    loop.evaluated)

\* a wrapper that goes on with the parameters it has when a required one is
\* missing; C12_MissingArgsDelegate must tell it from lines 141-151
BindPartialAndDispatch(c, args, s) ==
    IF Len(args) > Len(Params(c.original_fn)) THEN Keep("raise", Raise("TypeError"), s)
    ELSE Dispatch(c.original_fn, s,
                  GuardLoop(c.gm.guard_checks, 1, Bindings(c.original_fn, args), s.nsp),
                  run_with_bindings(c.gm.graph, Bindings(c.original_fn, args)))

\* lines 137-152: sig.bind_partial(*args), then the loop over sig.parameters
BindAndDispatch(c, args, s) ==
    IF Len(args) > Len(Params(c.original_fn)) THEN Keep("raise", Raise("TypeError"), s)
    ELSE IF Len(args) < Len(Params(c.original_fn)) THEN Keep("original", None, s)
    ELSE Dispatch(c.original_fn, s,
                  GuardLoop(c.gm.guard_checks, 1, Bindings(c.original_fn, args), s.nsp),
                  run_with_bindings(c.gm.graph, Bindings(c.original_fn, args)))

\* wrapper(*args) of closure number w, lines 136-177
wrapper(w, args, s) == BindAndDispatch(s.ws[w], args, s)

\* _get_callable_from_frame(frame) for the frame of fn's code: fn when the
\* namespace holds the function itself, under its own name (lines 14-16) or
\* under another one (lines 21-23); a frame of fn has no local called fn
get_callable_from_frame(fn, nsp) ==
    IF nsp[fn] = OrigV(fn) THEN fn
    ELSE IF \E k \in DOMAIN nsp : nsp[k] = OrigV(fn) THEN fn
    ELSE NoName

\* a hook that gives up on a trace with an unhandled opcode and installs
\* nothing; C5_AbortInstallsWrapper must tell it from on_call
TracedOnCallGivingUp(f, s, t) ==
    IF t.raised THEN [s EXCEPT !.ok = FALSE]
    ELSE IF HasUnhandled(t.guards) THEN [s EXCEPT !.ok = TRUE]
    ELSE Install(s, f, t.graph, t.guards)

\* a hook that installs what the tracer had built when it raised;
\* C30_HookFailureAtomic must tell it from on_call
TracedOnCallHalfway(f, s, t) ==
    IF t.raised THEN [Install(s, f, t.graph, t.guards) EXCEPT !.ok = FALSE]
    ELSE Install(s, f, t.graph, t.guards)

\* lines 190-201: t is what the tracer did for f
TracedOnCall(f, s, t) ==
    IF t.raised THEN [s EXCEPT !.ok = FALSE]
    ELSE Install(s, f, t.graph, t.guards)

\* a hook that does not look into the cache before it traces;
\* C13_HookNoOp must tell it from lines 185-188
OnCallOfResolved(f, s) ==
    IF f = NoName THEN [s EXCEPT !.ok = TRUE]
    ELSE TracedOnCall(f, s, trace_function(f, s.nsp))

\* on_call(frame) for the frame of fn's code, lines 183-201;
\* ok is false when an exception leaves on_call
OnCallOf(f, s) ==
    IF f = NoName \/ f \in DOMAIN s.cache THEN [s EXCEPT !.ok = TRUE]
    ELSE TracedOnCall(f, s, trace_function(f, s.nsp))

on_call(fn, s) == OnCallOf(get_callable_from_frame(fn, s.nsp), s)

\* pdyn_profile._profile_fn(frame, event, arg), lines 8-18: exceptions of
\* on_call are printed and swallowed
profile_fn(fn, event, s) ==
    IF event # "call" THEN s ELSE [on_call(fn, s) EXCEPT !.ok = TRUE]

(***************************************************************************)
(* pdyn.py: the public register() and unregister().  hook is the function  *)
(* set with sys.setprofile before the call; the result is the function set *)
(* after it and what the call returned or raised.                          *)
(*                                                                         *)
(* `import dynamo_hook` (lines 9-14) depends on where demo_fx is.  The     *)
(* directory that holds demo_fx is on sys.path (tracer.py imports          *)
(* demo_fx.ops by its absolute name).  In the repository that directory    *)
(* also holds a directory dynamo_hook, with a setup.py and nothing else    *)
(* (dynamo_hook.c is not there, so the extension cannot be built): the     *)
(* import finds it as a namespace package and succeeds, and the module has *)
(* no attributes.  Where demo_fx is installed without that directory the   *)
(* import raises and pdyn falls back to pdyn_profile.                      *)
(***************************************************************************)
\* the outcomes of the import
ImportOutcomes == {"ImportError", "namespace"}

\* pdyn.py lines 9-14
HAS_C_EXT == dynamo_hook # "ImportError"

\* pdyn.register(), lines 19-27, with pdyn_profile.register(), line 23;
\* dynamo_hook.set_callback of a module without attributes raises
pdyn_register(hook) ==
    IF HAS_C_EXT THEN [hook |-> hook, res |-> Raise("AttributeError")]
    ELSE [hook |-> "_profile_fn", res |-> Ret(StrV("py_profile"))]

\* pdyn.unregister(), lines 29-36, with pdyn_profile.unregister(), line 26;
\* the AttributeError of line 32 is caught at line 33
pdyn_unregister(hook) ==
    IF HAS_C_EXT THEN [hook |-> hook, res |-> Ret(None)]
    ELSE [hook |-> "None", res |-> Ret(None)]

(***************************************************************************)
(* The state machine.  The host program, between calls, registers or       *)
(* unregisters the hook, rebinds a global the function reads, or calls the *)
(* function: by name, or through a reference a call site kept.  A call is  *)
(* followed frame by frame.  Hook events are modelled for the frames of    *)
(* the observed function: the helpers it calls are builtins or library     *)
(* functions without Python frames, and the manager's own functions are    *)
(* taken to be out of the hook's reach.  The host thread is the only       *)
(* thread, so a wrapper frame up to its next call is one step.             *)
(***************************************************************************)
ArgVals == {IntV(2), BoolV(FALSE)}
\* the argument tuples of a call: all parameters given, or none of them
ArgChoices(fn) ==
    {<<>>} \cup {[q \in 1..Len(Params(fn)) |-> v] : v \in ArgVals}

\* the globals fn reads
GlobalsRead(fn) == {Code(fn)[i].s : i \in {j \in 1..Len(Code(fn)) : Code(fn)[j].op = "LOAD_GLOBAL"}}

\* call.pc: "idle", "wrapper" (wrapper number cur is entered), "call_orig" (the
\* original is called), "run_orig" (its frame runs), "done"
\* first: the wrapper the call entered first (0: the original)
\* depth: how many times a wrapper called a new wrapper in this call
\* retraces: calls of _invalidate_and_retrace in this call; failed: one returned None
\* replayed: what the first run of the executor in this call returned or raised
\* evaluated, executed: the guard checks the last wrapper frame called, and
\* whether it ran the executor
\* targets: how many times the executor has called a call_function target in
\* this call
\* hook: what the hook met when the frame of the original was entered
\* api, res, again: while idle, the pdyn function the host program called last
\* since the last call of the observed function, what it returned or raised,
\* and whether the pdyn call before it was a call of the same function
\* how: where result comes from: "exec", "orig" or "bind"
Idle ==
    [pc |-> "idle", args |-> <<>>, cur |-> 0, first |-> 0, byname |-> FALSE, depth |-> 0,
     retraces |-> 0, failed |-> FALSE, replayed |-> None, result |-> None, how |-> "",
     evaluated |-> 0, executed |-> FALSE, targets |-> 0, hook |-> "",
     api |-> "", res |-> None, again |-> FALSE]

Shared == [cache |-> TRACE_CACHE, nsp |-> ns, ws |-> wrappers, ok |-> TRUE]

Init ==
    /\ prog \in Programs
    /\ \E second \in {Unbound, OrigV(prog)} :
          ns = [x \in GlobalNames \cup {prog} |->
                  CASE x = prog -> OrigV(prog)
                    [] x = "h" -> FnV("inc")
                    [] x = "cfg" -> ObjV("ok")
                    [] x = "also" -> second]
    /\ TRACE_CACHE = EmptyMap
    /\ wrappers = <<>>
    /\ profile = "None"
    /\ call = Idle
    /\ tracer = NewTracer
    /\ dynamo_hook \in ImportOutcomes

\* the host program has called pdyn.register() or pdyn.unregister(); did is
\* what the call did to the hook and what it returned
Called(op, did) ==
    /\ call.pc = "idle"
    /\ profile' = did.hook
    /\ call' = [call EXCEPT !.api = op, !.res = did.res, !.again = (call.api = op)]
    /\ UNCHANGED <<tracer, dynamo_hook, prog, ns, TRACE_CACHE, wrappers>>

Register ==
    /\ Called("register", pdyn_register(profile))

Unregister ==
    /\ Called("unregister", pdyn_unregister(profile))

\* the host program rebinds a module-level name
Rebind(g, v) ==
    /\ call.pc = "idle"
    /\ ns[g] # v
    /\ ns' = [ns EXCEPT ![g] = v]
    /\ UNCHANGED <<tracer, dynamo_hook, prog, TRACE_CACHE, wrappers, profile, call>>

\* a call site calls `target`, the object it got from the namespace or kept
Begin(target, args, byname) ==
    call' = [Idle EXCEPT !.pc = IF target.k = "wrapper" THEN "wrapper" ELSE "call_orig",
                         !.args = args,
                         !.cur = IF target.k = "wrapper" THEN target.w ELSE 0,
                         !.first = IF target.k = "wrapper" THEN target.w ELSE 0,
                         !.byname = byname]

CallByName(args) ==
    /\ call.pc = "idle"
    /\ Begin(ns[prog], args, TRUE)
    /\ UNCHANGED <<tracer, dynamo_hook, prog, ns, TRACE_CACHE, wrappers, profile>>

CallKept(target, args) ==
    /\ call.pc = "idle"
    /\ target # ns[prog]
    /\ Begin(target, args, FALSE)
    /\ UNCHANGED <<tracer, dynamo_hook, prog, ns, TRACE_CACHE, wrappers, profile>>

\* the frame of the original is entered: the profile function, if one is set,
\* gets the "call" event (a call with the wrong number of arguments raises
\* before there is a frame)
HookCase ==
    IF profile # "_profile_fn" \/ Len(call.args) # Len(Params(prog)) THEN "no_event"
    ELSE IF get_callable_from_frame(prog, ns) = NoName THEN "unresolved"
    ELSE IF prog \in DOMAIN TRACE_CACHE THEN "cached"
    ELSE "first_trace"

EnteredWith(s) ==
    /\ Len(s.ws) <= MaxWrappers
    /\ TRACE_CACHE' = s.cache
    /\ ns' = s.nsp
    /\ wrappers' = s.ws
    /\ call' = [call EXCEPT !.pc = "run_orig", !.hook = HookCase]
    /\ UNCHANGED <<tracer, dynamo_hook, prog, profile>>

EnterOriginal ==
    /\ call.pc = "call_orig"
    /\ EnteredWith(IF profile = "_profile_fn" /\ Len(call.args) = Len(Params(prog))
                   THEN profile_fn(prog, "call", Shared) ELSE Shared)

\* the body of the original runs
RunOriginal ==
    /\ call.pc = "run_orig"
    /\ call' = [call EXCEPT !.pc = "done", !.how = "orig",
                            !.result = original_fn(prog, call.args, ns)]
    /\ UNCHANGED <<tracer, dynamo_hook, prog, ns, TRACE_CACHE, wrappers, profile>>

\* one wrapper frame
WrapperDid(o) ==
    /\ Len(o.s.ws) <= MaxWrappers
    /\ TRACE_CACHE' = o.s.cache
    /\ ns' = o.s.nsp
    /\ wrappers' = o.s.ws
    /\ call' = [call EXCEPT
                  !.pc = CASE o.kind = "new_wrapper" -> "wrapper"
                           [] o.kind = "original" -> "call_orig"
                           [] OTHER -> "done",
                  !.cur = IF o.kind = "new_wrapper" THEN Len(o.s.ws) ELSE @,
                  !.depth = IF o.kind = "new_wrapper" THEN @ + 1 ELSE @,
                  !.retraces = IF o.retraced THEN @ + 1 ELSE @,
                  !.failed = @ \/ (o.retraced /\ o.kind = "original"),
                  !.replayed = IF @ = None THEN o.replayed ELSE @,
                  !.evaluated = o.evaluated,
                  !.executed = o.replayed # None,
                  !.targets = IF o.replayed # None
                              THEN @ + TargetsCalled(wrappers[call.cur].gm.graph,
                                                     Bindings(prog, call.args))
                              ELSE @,
                  !.result = IF o.kind \in {"return", "raise"} THEN o.res ELSE @,
                  !.how = CASE o.kind = "return" -> "exec"
                            [] o.kind = "raise" -> "bind"
                            [] OTHER -> @]
    /\ UNCHANGED <<tracer, dynamo_hook, prog, profile>>

WrapperCall ==
    /\ call.pc = "wrapper"
    /\ WrapperDid(wrapper(call.cur, call.args, Shared))

\* the caller has the result
Return ==
    /\ call.pc = "done"
    /\ call' = Idle
    /\ UNCHANGED <<tracer, dynamo_hook, prog, ns, TRACE_CACHE, wrappers, profile>>

Next ==
    \/ Register
    \/ Unregister
    \/ \E g \in GlobalsRead(prog) : \E v \in GlobalChoices(g) : Rebind(g, v)
    \/ \E args \in ArgChoices(prog) : CallByName(args)
    \/ \E args \in ArgChoices(prog) :
          \E target \in {OrigV(prog)} \cup {WrapperV(w) : w \in 1..Len(wrappers)} :
              CallKept(target, args)
    \/ EnterOriginal
    \/ RunOriginal
    \/ WrapperCall
    \/ Return

Spec == Init /\ [][Next]_vars

(***************************************************************************)
(* The CFG builder on its own.  A tracer object is given a decoded         *)
(* instruction list (what trace_function stores at lines 46-47) and builds *)
(* its blocks; no function is observed meanwhile.  The lists are those of  *)
(* at most MaxInstrs instructions that end in RETURN_VALUE, whose jumps    *)
(* go to the offset of an instruction of the list, forward for             *)
(* JUMP_FORWARD and FOR_ITER.                                              *)
(***************************************************************************)
\* the instructions a list of n instructions is made of
InstrChoices(n) ==
    {LOAD_CONST(None), Op0("RETURN_VALUE")}
    \cup {Ins(op, "", None, Offset(i)) :
            op \in {"POP_JUMP_IF_FALSE", "JUMP_FORWARD", "JUMP_ABSOLUTE", "FOR_ITER"},
            i \in 1..n}

\* JUMP_FORWARD and FOR_ITER go forward
JumpsForward(l) ==
    \A i \in 1..Len(l) : l[i].op \in {"JUMP_FORWARD", "FOR_ITER"} => l[i].n > Offset(i)

InitCFG ==
    /\ prog = "ident"
    /\ ns = [x \in GlobalNames \cup {prog} |-> Unbound]
    /\ TRACE_CACHE = EmptyMap
    /\ wrappers = <<>>
    /\ profile = "None"
    /\ call = Idle
    /\ tracer = NewTracer
    /\ dynamo_hook = "ImportError"

\* lines 46-47: self._instrs = list(dis.get_instructions(code))
Decode ==
    /\ tracer.pc = "new"
    /\ \E n \in 1..MaxInstrs :
          \E l \in [1..(n - 1) -> InstrChoices(n)] :
              /\ JumpsForward(l)
              /\ tracer' = [tracer EXCEPT !.pc = "decoded",
                                          !.instrs = Append(l, Op0("RETURN_VALUE"))]
    /\ UNCHANGED <<dynamo_hook, prog, ns, TRACE_CACHE, wrappers, profile, call>>

\* line 49: self._build_basic_blocks()
BuildBlocks ==
    /\ tracer.pc = "decoded"
    /\ tracer' = [tracer EXCEPT !.pc = "built", !.blocks = build_basic_blocks(tracer.instrs)]
    /\ UNCHANGED <<dynamo_hook, prog, ns, TRACE_CACHE, wrappers, profile, call>>

NextCFG ==
    \/ Decode
    \/ BuildBlocks

SpecCFG == InitCFG /\ [][NextCFG]_vars

(***************************************************************************)
(* Predicates over the state that the properties below share.              *)
(***************************************************************************)
\* the call in progress entered a wrapper, with an argument for every parameter
ThroughWrapper == call.pc # "idle" /\ call.first # 0 /\ Len(call.args) = Len(Params(prog))

\* the hook is about to trace prog for the first time (on_call gets past line 188)
FirstTraceDue ==
    /\ call.pc = "call_orig"
    /\ profile = "_profile_fn"
    /\ Len(call.args) = Len(Params(prog))
    /\ wrappers = <<>>

\* the wrapper frame about to run belongs to a wrapper a retrace has replaced:
\* the cache holds an entry made after it
StaleWrapperDue ==
    /\ call.pc = "wrapper"
    /\ Len(call.args) = Len(Params(prog))
    /\ prog \in DOMAIN TRACE_CACHE
    /\ TRACE_CACHE[prog].wrapper > call.cur

\* wrapper number w was traced with global g bound to another object than now
TracedWithOther(w, g) ==
    \E q \in 1..Len(wrappers[w].gm.guards_meta) :
        /\ wrappers[w].gm.guards_meta[q].tag = "global_eq"
        /\ wrappers[w].gm.guards_meta[q].name = g
        /\ wrappers[w].gm.guards_meta[q].val # ns[g]

(***************************************************************************)
(* C1.  Semantic transparency: when a call through a wrapper returns what  *)
(* the executor computed, the original function returns the same value on  *)
(* the same arguments and globals.                                         *)
(***************************************************************************)
C1_SemanticTransparency ==
    (ThroughWrapper /\ call.pc = "done" /\ call.how = "exec")
        => call.result = original_fn(prog, call.args, ns)

(***************************************************************************)
(* C2.  Bounded re-dispatch: one top-level wrapper call performs at most   *)
(* one invalidate-and-retrace.                                             *)
(***************************************************************************)
C2_AtMostOneRetrace == ThroughWrapper => call.retraces <= 1

(***************************************************************************)
(* C3.  User errors surface unchanged: when a call_function target raises  *)
(* during replay, the wrapper call ends with that exception and did not    *)
(* invalidate or retrace.                                                  *)
(***************************************************************************)
C3_UserErrorSurfaces ==
    (ThroughWrapper /\ call.replayed = Raise("BoomError"))
        => /\ call.pc = "done"
           /\ call.result = Raise("BoomError")
           /\ call.retraces = 0

(***************************************************************************)
(* C4.  Unhandled-opcode fallback: a wrapper whose trace holds an          *)
(* unhandled_opcode guard delegates every call to the original: the call   *)
(* stays in the wrapper it entered until the original is called, performs  *)
(* no retrace, and ends with the original's result.                        *)
(***************************************************************************)
C4_UnhandledDelegates ==
    (ThroughWrapper /\ HasUnhandled(wrappers[call.first].gm.guards_meta))
        => /\ call.cur = call.first
           /\ call.retraces = 0
           /\ call.pc = "done" => call.result = original_fn(prog, call.args, ns)

(***************************************************************************)
(* C5.  TraceAborted policy as the specification states it: when the first *)
(* trace of f meets an unsupported opcode, the original stays bound in the *)
(* namespace, no wrapper is made and the cache gets no entry.              *)
(***************************************************************************)
C5_AbortLeavesOriginal ==
    [][(FirstTraceDue /\ HasUnhandled(trace_function(prog, ns).guards))
          => /\ ns'[prog] = OrigV(prog)
             /\ wrappers' = wrappers
             /\ prog \notin DOMAIN TRACE_CACHE']_vars

(***************************************************************************)
(* C5, amended.  When the first trace of f meets an unsupported opcode,    *)
(* the trace is cut there with an unhandled_opcode guard and is installed  *)
(* like a complete one: a wrapper is made and bound in the namespace, the  *)
(* cache gets an entry for f, and the guard compiles to a check that       *)
(* always fails.                                                           *)
(***************************************************************************)
C5_AbortInstallsWrapper ==
    [][(FirstTraceDue /\ HasUnhandled(trace_function(prog, ns).guards))
          => /\ Len(wrappers') = 1
             /\ ns'[prog] = WrapperV(1)
             /\ prog \in DOMAIN TRACE_CACHE'
             /\ TRACE_CACHE'[prog].wrapper = 1
             /\ HasUnhandled(TRACE_CACHE'[prog].gm.guards_meta)
             /\ \E q \in 1..Len(wrappers'[1].gm.guard_checks) :
                    wrappers'[1].gm.guard_checks[q] = AlwaysFalse]_vars

\* the hook has just traced a function with an unsupported opcode
C5_Witness ==
    /\ call.pc = "run_orig"
    /\ call.first = 0
    /\ Len(wrappers) = 1
    /\ ns[prog] = WrapperV(1)
    /\ HasUnhandled(wrappers[1].gm.guards_meta)

(***************************************************************************)
(* C6.  Cache coherence: when an invalidation completes, the namespace     *)
(* slot of f holds the original (the retrace failed, and the cache has no  *)
(* entry) or the wrapper that this retrace made, never an earlier wrapper. *)
(***************************************************************************)
C6_CacheCoherence ==
    [][call'.retraces > call.retraces
          => \/ /\ call'.failed
                /\ ns'[prog] = OrigV(prog)
                /\ wrappers' = wrappers
             \/ /\ ~call'.failed
                /\ Len(wrappers') = Len(wrappers) + 1
                /\ ns'[prog] = WrapperV(Len(wrappers'))
                /\ ns'[prog] # ns[prog]]_vars

\* an invalidation started by a wrapper that was no longer bound has completed
C6_Witness ==
    /\ call.retraces > 0
    /\ ~call.byname
    /\ call.first + 1 < Len(wrappers)
    /\ ns[prog] = WrapperV(Len(wrappers))

(***************************************************************************)
(* C7.  Stale wrappers dispatch through the current cache: a replaced      *)
(* wrapper that is invoked again leaves the current cache entry in place.  *)
(***************************************************************************)
C7_StaleWrapperKeepsEntry ==
    [][StaleWrapperDue
          => /\ prog \in DOMAIN TRACE_CACHE'
             /\ TRACE_CACHE'[prog] = TRACE_CACHE[prog]]_vars

(***************************************************************************)
(* C8.  Invalidation is idempotent: a wrapper invocation that detects a    *)
(* guard failure for a trace an earlier invocation has already replaced    *)
(* does not retrace; it goes on in the wrapper of the entry it finds.      *)
(***************************************************************************)
C8_LateLoserRedispatches ==
    [][(StaleWrapperDue /\ ~GuardsPass(wrappers[call.cur].gm.guard_checks,
                                       Bindings(prog, call.args), ns))
          => /\ wrappers' = wrappers
             /\ call'.retraces = call.retraces
             /\ call'.pc = "wrapper"
             /\ call'.cur = TRACE_CACHE[prog].wrapper]_vars

(***************************************************************************)
(* C9.  Global identity guard: a call by name that enters a wrapper traced *)
(* with global h bound to another object retraces once, and ends with the  *)
(* result the original computes with the new binding.                      *)
(***************************************************************************)
C9_RebindRetracesOnce ==
    (ThroughWrapper /\ call.byname /\ TracedWithOther(call.first, "h"))
        => /\ call.retraces <= 1
           /\ call.pc = "done"
                => /\ call.retraces = 1
                   /\ call.result = original_fn(prog, call.args, ns)

(***************************************************************************)
(* C10.  Retrace failure: when invalidate-and-retrace fails in a wrapper   *)
(* call, the cache entry of f is gone and the original is bound again in   *)
(* the namespace when the wrapper calls the original, and the call ends    *)
(* with what the original does on the same arguments.                      *)
(***************************************************************************)
C10_RetraceFailure ==
    (ThroughWrapper /\ call.failed)
        => /\ call.pc \in {"call_orig", "run_orig", "done"}
           /\ call.pc = "call_orig"
                => /\ prog \notin DOMAIN TRACE_CACHE
                   /\ ns[prog] = OrigV(prog)
           /\ call.pc = "done"
                => /\ call.how = "orig"
                   /\ call.result = original_fn(prog, call.args, ns)

\* a retrace failed and the original, called instead, returned a value
C10_Witness ==
    /\ ThroughWrapper
    /\ call.failed
    /\ call.pc = "done"
    /\ call.result = Ret(IntV(0))
    /\ prog \notin DOMAIN TRACE_CACHE
    /\ ns[prog] = OrigV(prog)

(***************************************************************************)
(* C11: a wrapper frame that has a value for every parameter calls its     *)
(* guard checks in the order the trace recorded them and stops at the      *)
(* first one that is false or raises: when check q is the first such, the  *)
(* frame has called q checks, has not run the executor and has called      *)
(* _invalidate_and_retrace once; when there is none it has called all the  *)
(* checks and run the executor.                                            *)
(***************************************************************************)
C11_NotOk(q) ==
    ~CheckOk(EvalCheck(wrappers[call.cur].gm.guard_checks[q], Bindings(prog, call.args), ns))

C11_GuardOrder ==
    [][(call.pc = "wrapper" /\ Len(call.args) = Len(Params(prog))) =>
        \/ \E q \in 1..Len(wrappers[call.cur].gm.guard_checks) :
              /\ C11_NotOk(q)
              /\ \A i \in 1..(q - 1) : ~C11_NotOk(i)
              /\ call'.evaluated = q
              /\ ~call'.executed
              /\ call'.retraces = call.retraces + 1
        \/ /\ \A q \in 1..Len(wrappers[call.cur].gm.guard_checks) : ~C11_NotOk(q)
           /\ call'.evaluated = Len(wrappers[call.cur].gm.guard_checks)
           /\ call'.executed
        \/ UNCHANGED vars]_vars

\* the first frame of a call stopped at the first of two or more checks
C11_Witness ==
    /\ ThroughWrapper
    /\ call.retraces = 1
    /\ call.depth + (IF call.failed THEN 1 ELSE 0) = 1
    /\ call.evaluated = 1
    /\ ~call.executed
    /\ Len(wrappers[call.first].gm.guard_checks) >= 2

(***************************************************************************)
(* C12: a wrapper frame entered without a value for a required parameter   *)
(* calls the original with the arguments it got and does nothing else: no  *)
(* guard check is called, the executor does not run, there is no retrace,  *)
(* and the cache, the namespace and the wrappers stay as they are.         *)
(***************************************************************************)
C12_MissingArgsDelegate ==
    [][(call.pc = "wrapper" /\ Len(call.args) < Len(Params(prog))) =>
        /\ call'.pc = "call_orig"
        /\ call'.args = call.args
        /\ call'.evaluated = 0
        /\ ~call'.executed
        /\ call'.retraces = call.retraces
        /\ UNCHANGED <<TRACE_CACHE, ns, wrappers>>]_vars

\* a wrapper got too few arguments and has handed the call to the original
C12_Witness ==
    /\ call.pc = "call_orig"
    /\ call.first # 0
    /\ Len(call.args) < Len(Params(prog))
    /\ prog \in DOMAIN TRACE_CACHE

(***************************************************************************)
(* C13: when the frame of the original is entered with the hook set,       *)
(* on_call leaves the cache, the namespace and the wrappers as they are    *)
(* if no callable can be resolved from the frame or if the resolved        *)
(* callable has a cache entry; a wrapper is made by the hook only for a    *)
(* resolved callable without an entry, so a function is not first-traced   *)
(* again while its entry exists.                                           *)
(***************************************************************************)
C13_HookNoOp ==
    [][(/\ call.pc = "call_orig"
        /\ profile = "_profile_fn"
        /\ Len(call.args) = Len(Params(prog))
        /\ (get_callable_from_frame(prog, ns) = NoName \/ prog \in DOMAIN TRACE_CACHE))
       => UNCHANGED <<TRACE_CACHE, ns, wrappers>>]_vars

\* the hook resolved the function through its second name and found it cached
C13_Witness ==
    /\ call.pc = "run_orig"
    /\ call.hook = "cached"
    /\ prog \in DOMAIN TRACE_CACHE
    /\ ns["also"] = OrigV(prog)
    /\ ns[prog] = WrapperV(TRACE_CACHE[prog].wrapper)

(***************************************************************************)
(* C14: registration is idempotent.  A register() that follows a           *)
(* register() leaves the hook, the cache, the namespace and the wrappers   *)
(* as the first one left them and returns the tag the first one returned;  *)
(* an unregister() that follows an unregister() leaves them as the first   *)
(* one left them.                                                          *)
(***************************************************************************)
C14_RegistrationIdempotent ==
    [][(/\ call.pc = "idle" /\ call.api # ""
        /\ call'.pc = "idle" /\ call'.api = call.api
        /\ ~call.again /\ call'.again) =>
        /\ profile' = profile
        /\ call'.res = call.res
        /\ call.api = "register" => call'.res.r = "ret"
        /\ UNCHANGED <<prog, ns, TRACE_CACHE, wrappers>>]_vars

(***************************************************************************)
(* C15: every graph trace_function returns has exactly one output node.    *)
(* Stated for the graph the hook has just got from the tracer and put in   *)
(* the cache.                                                              *)
(***************************************************************************)
C15_ExactlyOneOutput ==
    (call.pc = "run_orig" /\ call.hook = "first_trace" /\ prog \in DOMAIN TRACE_CACHE)
        => Cardinality({i \in 1..Len(TRACE_CACHE[prog].gm.graph) :
                            TRACE_CACHE[prog].gm.graph[i].op = "output"}) = 1

RECURSIVE C17_Concat(_)
C17_Concat(j) ==
    IF j > Len(tracer.blocks) THEN <<>>
    ELSE SubSeq(tracer.instrs, tracer.blocks[j].first, tracer.blocks[j].last)
         \o C17_Concat(j + 1)

C17_Partition ==
    tracer.pc = "built" =>
        /\ \A j, k \in 1..Len(tracer.blocks) :
              j < k => /\ tracer.blocks[j].start_offset < tracer.blocks[k].start_offset
                       /\ (tracer.blocks[j].first..tracer.blocks[j].last)
                            \cap (tracer.blocks[k].first..tracer.blocks[k].last) = {}
        /\ \A j \in 1..Len(tracer.blocks) :
              /\ tracer.blocks[j].first <= tracer.blocks[j].last
              /\ tracer.blocks[j].start_offset = Offset(tracer.blocks[j].first)
        /\ \A i \in 1..Len(tracer.instrs) :
              \E j \in 1..Len(tracer.blocks) : i \in tracer.blocks[j].first..tracer.blocks[j].last
        /\ C17_Concat(1) = tracer.instrs

\* three blocks, one of them of two instructions
C17_Witness ==
    /\ tracer.pc = "built"
    /\ Len(tracer.blocks) = 3
    /\ \E j \in 1..3 : tracer.blocks[j].last = tracer.blocks[j].first + 1

(***************************************************************************)
(* C18: after the blocks are built, every offset in a succs or preds list  *)
(* is the start_offset of a block, and a block p has s in its succs as     *)
(* many times as s has p in its preds.                                     *)
(***************************************************************************)
C18_EdgesWellFormed ==
    tracer.pc = "built" =>
        /\ \A j \in 1..Len(tracer.blocks) :
              /\ \A q \in 1..Len(tracer.blocks[j].succs) :
                    \E k \in 1..Len(tracer.blocks) :
                        tracer.blocks[k].start_offset = tracer.blocks[j].succs[q]
              /\ \A q \in 1..Len(tracer.blocks[j].preds) :
                    \E k \in 1..Len(tracer.blocks) :
                        tracer.blocks[k].start_offset = tracer.blocks[j].preds[q]
        /\ \A j, k \in 1..Len(tracer.blocks) :
              Cardinality({q \in 1..Len(tracer.blocks[j].succs) :
                              tracer.blocks[j].succs[q] = tracer.blocks[k].start_offset})
              = Cardinality({q \in 1..Len(tracer.blocks[k].preds) :
                              tracer.blocks[k].preds[q] = tracer.blocks[j].start_offset})

\* a block whose jump target is also its fall-through: the edge is there
\* twice, in the succs of the one block and in the preds of the other
C18_Witness ==
    /\ tracer.pc = "built"
    /\ \E j, k \in 1..Len(tracer.blocks) :
          /\ j # k
          /\ tracer.blocks[j].succs
                = <<tracer.blocks[k].start_offset, tracer.blocks[k].start_offset>>
          /\ tracer.blocks[k].preds
                = <<tracer.blocks[j].start_offset, tracer.blocks[j].start_offset>>

(***************************************************************************)
(* C19: the instruction that follows a branch (a jump, conditional or      *)
(* not, or FOR_ITER) or a RETURN_VALUE is a leader: it starts a block, so  *)
(* a branch or return is the last instruction of its block.                *)
(***************************************************************************)
C19_LeaderAfterBranch ==
    tracer.pc = "built" =>
        \A i \in 1..(Len(tracer.instrs) - 1) :
            (IsJump(tracer.instrs[i].op) \/ tracer.instrs[i].op = "RETURN_VALUE")
                => \E k \in 1..Len(tracer.blocks) : tracer.blocks[k].first = i + 1

(***************************************************************************)
(* C20: the successors of a block by its last instruction.  RETURN_VALUE:  *)
(* none.  An unconditional jump: the target, and nothing else.  A          *)
(* conditional jump or FOR_ITER: the target and the block that starts at   *)
(* the next instruction.  Any other instruction: the block that starts at  *)
(* the next instruction, and nothing else.                                 *)
(***************************************************************************)
C20_SuccsByTerminator ==
    tracer.pc = "built" =>
        \A j \in 1..Len(tracer.blocks) :
            tracer.blocks[j].succs =
                CASE tracer.instrs[tracer.blocks[j].last].op = "RETURN_VALUE" -> <<>>
                  [] tracer.instrs[tracer.blocks[j].last].op \in {"JUMP_FORWARD", "JUMP_ABSOLUTE"} ->
                        <<tracer.instrs[tracer.blocks[j].last].n>>
                  [] tracer.instrs[tracer.blocks[j].last].op \in {"POP_JUMP_IF_FALSE", "FOR_ITER"} ->
                        <<tracer.instrs[tracer.blocks[j].last].n, Offset(tracer.blocks[j].last + 1)>>
                  [] OTHER -> <<Offset(tracer.blocks[j].last + 1)>>

(***************************************************************************)
(* Worklist, joins, folding                                                *)
(***************************************************************************)
\* the start offsets of the blocks a path of successor edges leads to from `seen`
RECURSIVE C21_Reach(_, _)
C21_Reach(blocks, seen) ==
    LET from == {j \in 1..Len(blocks) : blocks[j].start_offset \in seen}
        more == seen \cup UNION {{blocks[j].succs[r] : r \in 1..Len(blocks[j].succs)} : j \in from}
    IN  IF more = seen THEN seen ELSE C21_Reach(blocks, more)

\* t is a trace of the function whose blocks are `blocks`
C21_Covered(t, blocks) ==
    (~t.raised /\ ~HasUnhandled(t.guards)) => t.visited = C21_Reach(blocks, {blocks[1].start_offset})

\* C21: when the hook has traced the function for the first time and the
\* trace met no unhandled opcode, the blocks the trace executed are exactly
\* the blocks reachable from the entry block through successor edges.
C21_WorklistCoverage ==
    (call.pc = "run_orig" /\ call.hook = "first_trace")
        => C21_Covered(trace_function(prog, ns), build_basic_blocks(Code(prog)))

\* the locals block bb stores: the names of its STORE_FAST instructions
C22_Stored(instrs, bb) ==
    {instrs[i].s : i \in {q \in bb.first..bb.last : instrs[q].op = "STORE_FAST"}}

\* tr is the tracer when its while loop is over: every local stored in a
\* visited predecessor of a block is bound in the in-state lines 76-109
\* compute for that block
C22_Visible(tr, instrs, blocks) ==
    tr.status = "run" =>
        \A j \in 1..Len(blocks) : \A q \in 1..Len(blocks[j].preds) :
            blocks[j].preds[q] \in tr.visited =>
                \A name \in C22_Stored(instrs, blocks[BlockAt(blocks, blocks[j].preds[q])]) :
                    MapGet(InState(tr.graph, tr.guards, blocks[j], tr.block_in_state).state,
                           name) # 0

\* C22: when the hook has traced the function, a local that a visited
\* predecessor block stores is visible under its name in the in-state of the
\* successor block (the in-state is merged from the predecessors' out-states).
C22_JoinFromOutStates ==
    (call.pc = "run_orig" /\ call.hook = "first_trace")
        => C22_Visible(WorkLoop(TraceStart(prog, build_basic_blocks(Code(prog))), Code(prog),
                                build_basic_blocks(Code(prog)), ns),
                       Code(prog), build_basic_blocks(Code(prog)))

\* the symbolic interpreter in the entry block of fn, before instruction i
C23_Before(fn, i, globals) ==
    SimBlock([graph |-> Placeholders(Params(fn)), guards |-> <<>>, stack |-> <<>>,
              local_map |-> EmptyMap, status |-> "run", exc |-> ""],
             Code(fn), 1, i - 1, globals)

\* the instructions of the entry block of fn with opcode op
C23_Sites(fn, op) ==
    {i \in 1..build_basic_blocks(Code(fn))[1].last : Code(fn)[i].op = op}

\* st is the interpreter before LOAD_ATTR ins, out the interpreter after it
C23_Folded(st, ins, out) ==
    (st.status = "run" /\ out.status = "run") =>
        IF st.graph[Top(st.stack)].op = "const"
           /\ HasAttr(st.graph[Top(st.stack)].target, ins.s) = Ret(BoolV(TRUE))
        THEN /\ out.graph[Len(out.graph)].op = "const"
             /\ out.guards = Append(st.guards, AttrEq(Top(st.stack), ins.s,
                                                     out.graph[Len(out.graph)].target))
        ELSE /\ out.graph[Len(out.graph)] =
                    Node("get_attr", StrV(ins.s), <<NodeRef(Top(st.stack))>>, ins.s)
             /\ out.guards = st.guards

\* C23: in the trace the hook makes, LOAD_ATTR a pushes a constant snapshot
\* with an attr_eq guard only when the base it pops is a const node whose
\* value has the attribute a; for any other base node it pushes
\* get_attr(a, base) and records no guard.
C23_FoldOnlyConstants ==
    (call.pc = "run_orig" /\ call.hook = "first_trace") =>
        \A i \in C23_Sites(prog, "LOAD_ATTR") :
            C23_Folded(C23_Before(prog, i, ns), Code(prog)[i],
                       SimLoadAttr(C23_Before(prog, i, ns), Code(prog)[i]))

\* st is the interpreter before CALL_FUNCTION ins (func: the callable it
\* pops, args: the arguments above it), out the interpreter after it
C24_Emitted(st, ins, func, args, out) ==
    IF st.graph[func].op = "const" /\ Callable(st.graph[func].target)
    THEN out.graph[Len(out.graph)] =
            Node("call_function", st.graph[func].target, ArgsOf(args),
                 out.graph[Len(out.graph)].name)
    ELSE out.graph[Len(out.graph)] =
            Node("call_function", FnV("_call_with_kwargs"), ArgsOf(<<func>> \o args), "call_gen")

C24_Site(st, ins) ==
    (st.status = "run" /\ Len(st.stack) > ins.n) =>
        C24_Emitted(st, ins, st.stack[Len(st.stack) - ins.n],
                    SubSeq(st.stack, Len(st.stack) - ins.n + 1, Len(st.stack)),
                    SimCall(st, ins))

\* C24: in the trace the hook makes, CALL bakes the callee into
\* call_function(target, args) only when the callable it pops is a const node
\* that wraps a callable; for any other callable node it emits the generic
\* apply, whose first argument is that node.
C24_DirectOnlyConstants ==
    (call.pc = "run_orig" /\ call.hook = "first_trace") =>
        \A i \in C23_Sites(prog, "CALL_FUNCTION") :
            C24_Site(C23_Before(prog, i, ns), Code(prog)[i])

(***************************************************************************)
(* Executor and guards                                                     *)
(***************************************************************************)
\* the graph without its store_fast and guard nodes, the references to the
\* nodes that stay renumbered
C25_Kept(graph) == {i \in 1..Len(graph) : graph[i].op \notin {"store_fast", "guard"}}
C25_Renumbered(a, kept) ==
    IF "ref" \in DOMAIN a THEN NodeRef(Cardinality({j \in kept : j <= a.ref})) ELSE a
C25_Nth(kept, n) == CHOOSE i \in kept : Cardinality({j \in kept : j <= i}) = n
C25_Without(graph, kept) ==
    [n \in 1..Cardinality(kept) |->
        [graph[C25_Nth(kept, n)] EXCEPT
            !.args = [q \in 1..Len(@) |-> C25_Renumbered(@[q], kept)]]]

\* ran: what the executor did on a graph, plain: what it did on the graph
\* without its store_fast and guard nodes
C25_Same(ran, plain) == plain.r = "ret" => ran = plain

\* C25: for every wrapper made and every binding of the parameters, when the
\* executor returns a value on the wrapper's graph without its store_fast
\* and guard nodes, it returns the same value on the graph itself.
C25_StoreFastNoEffect ==
    \A w \in 1..Len(wrappers) :
        \A b \in [{Params(prog)[q] : q \in 1..Len(Params(prog))} -> ArgVals] :
            C25_Same(run_with_bindings(wrappers[w].gm.graph, b),
                     run_with_bindings(C25_Without(wrappers[w].gm.graph,
                                                   C25_Kept(wrappers[w].gm.graph)), b))

\* the node guard g of a trace is about: the base of an attr_eq, the
\* condition of an is_bool (0 when the stack held None)
C26_NodeOf(g) == IF g.tag = "attr_eq" THEN g.base ELSE g.cond

\* C26: in every wrapper made, the compiled check of an attr_eq or is_bool
\* guard whose node is not a placeholder is true for no binding of the
\* parameters.
C26_UnprovableGuardsFail ==
    \A w \in 1..Len(wrappers) : \A q \in 1..Len(wrappers[w].gm.guards_meta) :
        (/\ wrappers[w].gm.guards_meta[q].tag \in {"attr_eq", "is_bool"}
         /\ (C26_NodeOf(wrappers[w].gm.guards_meta[q]) # 0 =>
                wrappers[w].gm.graph[C26_NodeOf(wrappers[w].gm.guards_meta[q])].op
                    # "placeholder"))
        => \A b \in [{Params(prog)[i] : i \in 1..Len(Params(prog))} -> ArgVals] :
              ~CheckOk(EvalCheck(wrappers[w].gm.guard_checks[q], b, ns))

\* C27: right after the hook has traced the function and installed the
\* wrapper, with the namespace as the trace saw it, every global_eq, deref_eq
\* and attr_eq guard of the trace is true for the arguments of the call.
C27_FreshTracePasses ==
    (call.pc = "run_orig" /\ call.hook = "first_trace" /\ prog \in DOMAIN TRACE_CACHE) =>
        \A q \in 1..Len(TRACE_CACHE[prog].gm.guards_meta) :
            TRACE_CACHE[prog].gm.guards_meta[q].tag \in {"global_eq", "deref_eq", "attr_eq"}
                => CheckOk(EvalCheck(TRACE_CACHE[prog].gm.guard_checks[q],
                                     Bindings(prog, call.args), ns))

\* the call_function nodes of a graph
C28_CallNodes(graph) == Cardinality({i \in 1..Len(graph) : graph[i].op = "call_function"})

\* C28: within one call that entered a wrapper, the executor has called no
\* more targets than the trace has call_function nodes, and the body of the
\* original does not run once a target has been called.
C28_NoDuplicatedTargets ==
    call.first # 0 =>
        /\ call.targets <= C28_CallNodes(wrappers[call.cur].gm.graph)
        /\ call.pc = "run_orig" => call.targets = 0

(***************************************************************************)
(* Fast path and hook failure                                              *)
(***************************************************************************)
\* the frame of wrapper closure c that is about to run with `args` binds
\* every parameter, passes every guard and gets a value from the executor
C29_Fast(c, args) ==
    /\ Len(args) = Len(Params(c.original_fn))
    /\ GuardsPass(c.gm.guard_checks, Bindings(c.original_fn, args), ns)
    /\ run_with_bindings(c.gm.graph, Bindings(c.original_fn, args)).r = "ret"

\* C29: a wrapper frame in which every guard passes and the executor returns
\* a value returns that value and leaves the trace cache, the namespace and
\* the set of wrappers as they were; it does not retrace and does not call
\* the original.
C29_FastPathUntouched ==
    [][(call.pc = "wrapper" /\ C29_Fast(wrappers[call.cur], call.args)) =>
          /\ call'.pc = "done" /\ call'.how = "exec"
          /\ TRACE_CACHE' = TRACE_CACHE /\ ns' = ns /\ wrappers' = wrappers
          /\ call'.retraces = call.retraces]_vars

\* a call through the installed wrapper has returned on the fast path: a
\* guard was checked, the executor ran, nothing was retraced, and the cache
\* and the namespace agree on the wrapper
C29_Witness ==
    /\ call.pc = "done" /\ call.how = "exec" /\ call.first # 0
    /\ call.executed /\ call.evaluated >= 1 /\ call.retraces = 0
    /\ prog \in DOMAIN TRACE_CACHE
    /\ ns[prog] = WrapperV(TRACE_CACHE[prog].wrapper)
    /\ call.first = TRACE_CACHE[prog].wrapper

\* the frame of the original is about to be entered under the hook, the
\* function is not cached, and the trace on_call starts raises
C30_TraceRaises ==
    /\ call.pc = "call_orig"
    /\ HookCase = "first_trace"
    /\ trace_function(prog, ns).raised

\* C30: when the first trace raises inside on_call, the trace cache, the
\* namespace and the wrappers stay as they were, and the intercepted call
\* goes on into the body of the original.
C30_HookFailureAtomic ==
    [][C30_TraceRaises =>
          /\ TRACE_CACHE' = TRACE_CACHE /\ ns' = ns /\ wrappers' = wrappers
          /\ call'.pc = "run_orig"]_vars

\* the hook has met the uncached function, its trace raised, and the frame
\* of the original runs with the cache empty and the name on the original
C30_Witness ==
    /\ call.pc = "run_orig" /\ call.hook = "first_trace"
    /\ trace_function(prog, ns).raised
    /\ prog \notin DOMAIN TRACE_CACHE
    /\ ns[prog] = OrigV(prog)

(***************************************************************************)
(* Cache and namespace                                                     *)
(***************************************************************************)
\* C31: whatever hook events, wrapper frames and invalidations have run, the
\* trace cache has entries for the observed function only; when it has one,
\* the entry's original is that function and the namespace slot of its name
\* holds the entry's wrapper; when it has none, the slot holds the original.
C31_CacheNamespaceAgree ==
    /\ DOMAIN TRACE_CACHE \subseteq {prog}
    /\ IF prog \in DOMAIN TRACE_CACHE
       THEN /\ TRACE_CACHE[prog].original = prog
            /\ ns[prog] = WrapperV(TRACE_CACHE[prog].wrapper)
       ELSE ns[prog] = OrigV(prog)

\* a call that went through a wrapper has completed after an invalidation
\* replaced the entry the hook had made: the cache holds the newest wrapper
\* and the name is bound to it
C31_Witness ==
    /\ call.pc = "done" /\ call.first # 0 /\ call.retraces >= 1 /\ ~call.failed
    /\ Len(wrappers) >= 2
    /\ prog \in DOMAIN TRACE_CACHE
    /\ TRACE_CACHE[prog].wrapper = Len(wrappers)
    /\ ns[prog] = WrapperV(Len(wrappers))
====
